---------------------------- MODULE Spec2Model ----------------------------
(***************************************************************************)
(* A model of the markup transformation and bilingual sentence-alignment   *)
(* engine of divine-office-epub (src/src/lib/mylexbor.js), of the cleaning *)
(* pipeline that drives it (horas.js) and of the download loop that feeds  *)
(* it (do.js).                                                             *)
(*                                                                         *)
(* Text.  A JavaScript string is modelled as a sequence of characters.  An *)
(* ASCII character is the one-character TLA+ string holding it; any other  *)
(* character is the string "U+XXXX" naming its code point, so that "U+00F3"*)
(* is o-acute.  Offsets of the code are 0-based, indices of a sequence are *)
(* 1-based: the character at JavaScript offset p is s[p + 1].              *)
(***************************************************************************)
EXTENDS Integers, Sequences, FiniteSets, TLC

(***************************************************************************)
(* Character classes of the regular expressions used by the code.          *)
(***************************************************************************)

\* [A-Z] of a JavaScript regular expression without the i flag.
UpperAZ ==
    {"A", "B", "C", "D", "E", "F", "G", "H", "I", "J", "K", "L", "M",
     "N", "O", "P", "Q", "R", "S", "T", "U", "V", "W", "X", "Y", "Z"}

\* [a-z]
LowerAZ ==
    {"a", "b", "c", "d", "e", "f", "g", "h", "i", "j", "k", "l", "m",
     "n", "o", "p", "q", "r", "s", "t", "u", "v", "w", "x", "y", "z"}

\* \d
Digit == {"0", "1", "2", "3", "4", "5", "6", "7", "8", "9"}

\* \w : the word characters that decide \b (ASCII only without the u flag).
WordChar == UpperAZ \cup LowerAZ \cup Digit \cup {"_"}

\* \s, and the characters String.prototype.trim removes.
WhiteSpace == {" ", "\t", "\n", "U+00A0"}

\* String.prototype.toLowerCase on one character.  The accented capitals
\* listed are those of the Latin texts the model uses.
LowerOf(c) ==
    CASE c = "A" -> "a" [] c = "B" -> "b" [] c = "C" -> "c" [] c = "D" -> "d"
      [] c = "E" -> "e" [] c = "F" -> "f" [] c = "G" -> "g" [] c = "H" -> "h"
      [] c = "I" -> "i" [] c = "J" -> "j" [] c = "K" -> "k" [] c = "L" -> "l"
      [] c = "M" -> "m" [] c = "N" -> "n" [] c = "O" -> "o" [] c = "P" -> "p"
      [] c = "Q" -> "q" [] c = "R" -> "r" [] c = "S" -> "s" [] c = "T" -> "t"
      [] c = "U" -> "u" [] c = "V" -> "v" [] c = "W" -> "w" [] c = "X" -> "x"
      [] c = "Y" -> "y" [] c = "Z" -> "z"
      [] c = "U+00C1" -> "U+00E1" [] c = "U+00C9" -> "U+00E9"
      [] c = "U+00CD" -> "U+00ED" [] c = "U+00D3" -> "U+00F3"
      [] c = "U+00DA" -> "U+00FA" [] c = "U+00C6" -> "U+00E6"
      [] OTHER -> c

ToLowerCase(s) == [i \in 1..Len(s) |-> LowerOf(s[i])]

(***************************************************************************)
(* String primitives.                                                      *)
(***************************************************************************)

\* s.substring(from, to) with 0-based offsets, from <= to, clipped to s.
Substring(s, from, to) ==
    LET a == IF from < 0 THEN 0 ELSE IF from > Len(s) THEN Len(s) ELSE from
        b == IF to < 0 THEN 0 ELSE IF to > Len(s) THEN Len(s) ELSE to
        lo == IF a <= b THEN a ELSE b
        hi == IF a <= b THEN b ELSE a
    IN  SubSeq(s, lo + 1, hi)

\* The first index >= i that holds no white space, Len(s) + 1 if none.
RECURSIVE SkipSpace(_, _)
SkipSpace(s, i) ==
    IF i > Len(s) \/ s[i] \notin WhiteSpace THEN i ELSE SkipSpace(s, i + 1)

\* The last index <= i that holds no white space, 0 if none.
RECURSIVE SkipSpaceBack(_, _)
SkipSpaceBack(s, i) ==
    IF i < 1 \/ s[i] \notin WhiteSpace THEN i ELSE SkipSpaceBack(s, i - 1)

\* String.prototype.trim
Trim(s) == SubSeq(s, SkipSpace(s, 1), SkipSpaceBack(s, Len(s)))

\* s.startsWith(w) at index i (1-based)
HasAt(s, i, w) ==
    /\ i >= 1
    /\ i + Len(w) - 1 <= Len(s)
    /\ SubSeq(s, i, i + Len(w) - 1) = w

\* s.endsWith(w)
EndsWith(s, w) == HasAt(s, Len(s) - Len(w) + 1, w)

\* s.includes(w)
Includes(s, w) == \E i \in 1..(Len(s) - Len(w) + 1) : HasAt(s, i, w)

\* The least index of a set of indices, 0 for the empty set.
FirstOf(S) == IF S = {} THEN 0 ELSE CHOOSE k \in S : \A m \in S : k <= m

\* The index of the first ">" at or after i, 0 if there is none.
NextGt(s, i) == FirstOf({k \in i..Len(s) : s[k] = ">"})

\* The index of the first "<" at or after i that has a ">" after it, 0 if
\* there is none.
NextTag(s, i) == FirstOf({k \in i..Len(s) : s[k] = "<" /\ NextGt(s, k) # 0})

\* content.replace(/<[^>]*>/g, repl): every "<" that has a ">" after it opens
\* a tag that runs to the first such ">"; the search goes on after the tag.
RECURSIVE ReplaceTagsFrom(_, _, _)
ReplaceTagsFrom(s, i, repl) ==
    IF i > Len(s) THEN <<>>
    ELSE LET j == NextTag(s, i)
         IN  IF j = 0 THEN SubSeq(s, i, Len(s))
             ELSE SubSeq(s, i, j - 1) \o repl
                    \o ReplaceTagsFrom(s, NextGt(s, j) + 1, repl)

ReplaceTags(s, repl) == ReplaceTagsFrom(s, 1, repl)

(***************************************************************************)
(* splitSentences                                                          *)
(***************************************************************************)

\* The end (last index) of a match of /\.\s+(?=[A-Z])|\.(?=\s*$)/ that
\* starts at index i, 0 if the expression does not match there.
SentenceMatchEnd(s, i) ==
    IF s[i] # "." THEN 0
    ELSE LET k == SkipSpace(s, i + 1)
         IN  IF k > i + 1 /\ k <= Len(s) /\ s[k] \in UpperAZ THEN k - 1
             ELSE IF k = Len(s) + 1 THEN i
             ELSE 0

\* content.split(/\.\s+(?=[A-Z])|\.(?=\s*$)/): the pieces between matches,
\* the piece after the last match included even when it is empty.
RECURSIVE SplitSentenceRe(_, _, _)
SplitSentenceRe(s, i, start) ==
    LET j == FirstOf({k \in i..Len(s) : SentenceMatchEnd(s, k) # 0})
    IN  IF j = 0 THEN <<SubSeq(s, start, Len(s))>>
        ELSE <<SubSeq(s, start, j - 1)>>
               \o SplitSentenceRe(s, SentenceMatchEnd(s, j) + 1,
                                  SentenceMatchEnd(s, j) + 1)

\* Array.prototype.filter with the predicate "s.trim() is not empty"
RECURSIVE FilterNonBlank(_)
FilterNonBlank(ss) ==
    IF ss = <<>> THEN <<>>
    ELSE IF Trim(Head(ss)) # <<>>
         THEN <<Head(ss)>> \o FilterNonBlank(Tail(ss))
         ELSE FilterNonBlank(Tail(ss))

splitSentences(content) ==
    IF Trim(content) = <<>> THEN <<>>
    ELSE LET sentences == FilterNonBlank(SplitSentenceRe(content, 1, 1))
         IN  [index \in 1..Len(sentences) |->
                LET trimmed == Trim(sentences[index])
                IN  IF index < Len(sentences) /\ ~EndsWith(trimmed, <<".">>)
                    THEN trimmed \o <<".">>
                    ELSE trimmed]

(***************************************************************************)
(* findBreakPoints and its helpers                                         *)
(***************************************************************************)

\* (et|and|qui|quae|quod|sed|but|for)
Conjunctions ==
    {<<"e", "t">>, <<"a", "n", "d">>, <<"q", "u", "i">>,
     <<"q", "u", "a", "e">>, <<"q", "u", "o", "d">>, <<"s", "e", "d">>,
     <<"b", "u", "t">>, <<"f", "o", "r">>}

\* (amen|gloria|alleluia)
PrayerWords ==
    {<<"a", "m", "e", "n">>, <<"g", "l", "o", "r", "i", "a">>,
     <<"a", "l", "l", "e", "l", "u", "i", "a">>}

\* (amen|terra|c<ae>lis|sancto) and (nomen|regnum|voluntas|panem|debita)
PhraseEndings ==
    {<<"a", "m", "e", "n">>, <<"t", "e", "r", "r", "a">>,
     <<"c", "U+00E6", "l", "i", "s">>, <<"s", "a", "n", "c", "t", "o">>,
     <<"n", "o", "m", "e", "n">>, <<"r", "e", "g", "n", "u", "m">>,
     <<"v", "o", "l", "u", "n", "t", "a", "s">>, <<"p", "a", "n", "e", "m">>,
     <<"d", "e", "b", "i", "t", "a">>}

\* (st|vs|etc|jr|sr|dr|mr|mrs|ms)
Abbreviations ==
    {<<"s", "t">>, <<"v", "s">>, <<"e", "t", "c">>, <<"j", "r">>,
     <<"s", "r">>, <<"d", "r">>, <<"m", "r">>, <<"m", "r", "s">>,
     <<"m", "s">>}

\* goodAfterPatterns.some(pattern => pattern.test(after)).  The first
\* pattern, /^\s*[A-Z]/, has no i flag; the two others have it.
GoodAfter(after) ==
    LET k == SkipSpace(after, 1)
        folded == ToLowerCase(after)
    IN  \/ (k <= Len(after) /\ after[k] \in UpperAZ)
        \/ \E w \in Conjunctions : HasAt(folded, k, w)
        \/ \E w \in PrayerWords : HasAt(folded, k, w)

\* goodBeforePatterns.some(pattern => pattern.test(before))
GoodBefore(before) ==
    \E w \in PhraseEndings : EndsWith(ToLowerCase(before), w)

isGoodBreakContext(before, after, punctuation) ==
    CASE punctuation = "." -> GoodAfter(after)
      [] punctuation = ":" -> GoodAfter(after) \/ GoodBefore(before)
      [] punctuation = "," -> GoodAfter(after)
      [] OTHER -> FALSE

isPoorBreakContext(before, after, punctuation) ==
    LET b == Trim(before)
        n == Len(b)
    IN  /\ punctuation = "."
        /\ \/ \E w \in Abbreviations : EndsWith(ToLowerCase(b), w)
           \/ (n >= 1 /\ b[n] \in Digit)
           \/ (/\ n >= 1
               /\ b[n] \in UpperAZ \cup LowerAZ
               /\ (n = 1 \/ b[n - 1] \notin WordChar))

\* The pass of textPositionToHtml without its inTag test: the characters
\* of a tag count as text.
TextPosStepCountingTags(htmlContent, textPos, w) ==
    IF w.htmlPos < Len(htmlContent) /\ w.currentTextPos < textPos
    THEN LET char == htmlContent[w.htmlPos + 1]
         IN  [htmlPos |-> w.htmlPos + 1,
              currentTextPos |-> IF char \notin {"<", ">"}
                                 THEN w.currentTextPos + 1
                                 ELSE w.currentTextPos,
              inTag |-> IF char = "<" THEN TRUE
                        ELSE IF char = ">" THEN FALSE
                        ELSE w.inTag]
    ELSE w

\* One test of the loop condition of textPositionToHtml and, when it
\* holds, one pass of the body, on the state w = [htmlPos, currentTextPos,
\* inTag]; htmlPos is a 0-based offset, so the character read is
\* htmlContent[htmlPos + 1].  Once the condition fails the state stays.
TextPosStep(htmlContent, textPos, w) ==
    IF w.htmlPos < Len(htmlContent) /\ w.currentTextPos < textPos
    THEN LET char == htmlContent[w.htmlPos + 1]
         IN  [htmlPos |-> w.htmlPos + 1,
              currentTextPos |-> IF char \notin {"<", ">"} /\ ~w.inTag
                                 THEN w.currentTextPos + 1
                                 ELSE w.currentTextPos,
              inTag |-> IF char = "<" THEN TRUE
                        ELSE IF char = ">" THEN FALSE
                        ELSE w.inTag]
    ELSE w

\* n steps of the loop from the state w: the first half of them, then the
\* rest.  The loop makes at most Len(htmlContent) passes.
RECURSIVE TextPosWalk(_, _, _, _)
TextPosWalk(htmlContent, textPos, w, n) ==
    IF n = 0 \/ w.htmlPos >= Len(htmlContent) THEN w
    ELSE IF n = 1 THEN TextPosStep(htmlContent, textPos, w)
    ELSE TextPosWalk(htmlContent, textPos,
                     TextPosWalk(htmlContent, textPos, w, n \div 2),
                     n - (n \div 2))

textPositionToHtml(htmlContent, textPos) ==
    TextPosWalk(htmlContent, textPos,
                [htmlPos |-> 0, currentTextPos |-> 0, inTag |-> FALSE],
                Len(htmlContent)).htmlPos

\* [.;:,!?]
Punctuation == {".", ";", ":", ",", "!", "?"}

\* A switch that gives every mark the score of a period.
PeriodScore(char) == 10

\* The switch of findBreakPoints.
BaseScore(char) ==
    CASE char = "." -> 10
      [] char \in {"!", "?"} -> 9
      [] char = ";" -> 8
      [] char = ":" -> 7
      [] char = "," -> 5
      [] OTHER -> 0

\* The text view of findBreakPoints: every tag becomes one space.
TextView(content) == ReplaceTags(content, <<" ">>)

\* The score findBreakPoints gives the mark at 0-based offset position of
\* the text view.
ScoreAt(textContent, position) ==
    LET char == textContent[position + 1]
        beforeText ==
            ToLowerCase(Substring(textContent,
                                  IF position - 20 > 0 THEN position - 20 ELSE 0,
                                  position))
        afterText ==
            ToLowerCase(Substring(textContent, position + 1,
                                  IF Len(textContent) < position + 21
                                  THEN Len(textContent) ELSE position + 21))
    IN  BaseScore(char)
          + (IF isGoodBreakContext(beforeText, afterText, char) THEN 3 ELSE 0)
          - (IF isPoorBreakContext(beforeText, afterText, char) THEN 3 ELSE 0)

\* The 0-based offsets of the marks findBreakPoints keeps: the matches of
\* punctuationRegex whose score is greater than 0.
KeptMarks(textContent) ==
    {position \in 0..(Len(textContent) - 1) :
        /\ textContent[position + 1] \in Punctuation
        /\ ScoreAt(textContent, position) > 0}

\* The elements of a finite set of integers in descending order.
Descending(S) ==
    [k \in 1..Cardinality(S) |->
        CHOOSE x \in S : Cardinality({y \in S : y > x}) = k - 1]

\* The elements of a finite set of integers in ascending order.
Ascending(S) ==
    [k \in 1..Cardinality(S) |->
        CHOOSE x \in S : Cardinality({y \in S : y < x}) = k - 1]

\* One break point per kept mark, pushed in the order of the scan and then
\* sorted by position.
findBreakPoints(content) ==
    LET textContent == TextView(content)
        marks == Ascending(KeptMarks(textContent))
    IN  [k \in 1..Len(marks) |->
            [position |-> marks[k] + 1,
             score |-> ScoreAt(textContent, marks[k]),
             char |-> textContent[marks[k] + 1],
             htmlPosition |-> textPositionToHtml(content, marks[k] + 1)]]

(***************************************************************************)
(* selectBestBreaks, splitAtBreakPoints, splitSentencesFuzzy               *)
(*                                                                         *)
(* The code computes with floating-point numbers.  The model computes the  *)
(* same quantities exactly, as integers over a common denominator.  With   *)
(* L the tag-stripped length of the content, T the summed tag-stripped     *)
(* length of the target sentences and S the summed length of the targets   *)
(* up to the ideal position at hand:                                       *)
(*     idealPos    = L * S / T                                             *)
(*     distance    = |position - idealPos|      = D / T                    *)
(*     maxDistance = 0.3 * L                    = 3 * L / 10               *)
(*     totalScore  = score + 5 * (maxDistance - distance) / maxDistance    *)
(*                 = ((score + 5) * 3 * L * T - 50 * D) / (3 * L * T)      *)
(* where D = |position * T - L * S|.  When T = 0 the proportion is 0/0,    *)
(* every comparison with it is false and no break point is selected.       *)
(***************************************************************************)

\* s.replace(/<[^>]*>/g, '').length
TextLength(s) == Len(ReplaceTags(s, <<>>))

\* targetSentences.reduce((sum, s) => sum + s.replace(/<[^>]*>/g, '').length, 0)
\* over the first n target sentences.
RECURSIVE SumTextLength(_, _)
SumTextLength(targetSentences, n) ==
    IF n = 0 THEN 0
    ELSE SumTextLength(targetSentences, n - 1) + TextLength(targetSentences[n])

Abs(x) == IF x < 0 THEN -x ELSE x

\* D of the comment above for a break point and the ideal position after
\* the first n target sentences.
ScaledDistance(breakPoint, L, T, S) == Abs(breakPoint.position * T - L * S)

\* distance <= maxDistance
InWindow(breakPoint, L, T, S) ==
    /\ T > 0
    /\ 10 * ScaledDistance(breakPoint, L, T, S) <= 3 * L * T

\* totalScore * 3 * L * T
ScaledTotalScore(breakPoint, L, T, S) ==
    (breakPoint.score + 5) * 3 * L * T - 50 * ScaledDistance(breakPoint, L, T, S)

\* An inner loop that takes the first break point that is not used and lies
\* in the window, whatever its score.
RECURSIVE FirstInWindowFrom(_, _, _, _, _, _, _, _)
FirstInWindowFrom(breakPoints, usedBreaks, L, T, S, j, bestBreak, bestScore) ==
    IF j > Len(breakPoints) THEN bestBreak
    ELSE IF /\ breakPoints[j].position \notin usedBreaks
            /\ InWindow(breakPoints[j], L, T, S)
         THEN j
         ELSE FirstInWindowFrom(breakPoints, usedBreaks, L, T, S, j + 1,
                                bestBreak, bestScore)

\* The inner loop of selectBestBreaks from break point j on: the index of
\* bestBreak (0 for null) given the best so far.  bestScore starts at -1,
\* that is -3 * L * T on the common denominator.
RECURSIVE BestBreakFrom(_, _, _, _, _, _, _, _)
BestBreakFrom(breakPoints, usedBreaks, L, T, S, j, bestBreak, bestScore) ==
    IF j > Len(breakPoints) THEN bestBreak
    ELSE IF /\ breakPoints[j].position \notin usedBreaks
            /\ InWindow(breakPoints[j], L, T, S)
            /\ ScaledTotalScore(breakPoints[j], L, T, S) > bestScore
         THEN BestBreakFrom(breakPoints, usedBreaks, L, T, S, j + 1, j,
                            ScaledTotalScore(breakPoints[j], L, T, S))
         ELSE BestBreakFrom(breakPoints, usedBreaks, L, T, S, j + 1,
                            bestBreak, bestScore)

\* The outer loop of selectBestBreaks from ideal position i (1-based) on:
\* the indices of the break points selected, in the order of selection.
RECURSIVE SelectFrom(_, _, _, _, _, _)
SelectFrom(breakPoints, splitsNeeded, targetSentences, L, i, usedBreaks) ==
    IF i > splitsNeeded THEN <<>>
    ELSE LET T == SumTextLength(targetSentences, Len(targetSentences))
             S == SumTextLength(targetSentences, i)
             bestBreak == BestBreakFrom(breakPoints, usedBreaks, L, T, S, 1, 0,
                                        0 - 3 * L * T)
         IN  IF bestBreak # 0
             THEN <<bestBreak>> \o
                  SelectFrom(breakPoints, splitsNeeded, targetSentences, L, i + 1,
                             usedBreaks \cup {breakPoints[bestBreak].position})
             ELSE SelectFrom(breakPoints, splitsNeeded, targetSentences, L, i + 1,
                             usedBreaks)

\* The indices of the break points selectBestBreaks selects for the ideal
\* positions, in the order of selection (the case of more break points than
\* splits needed).
SelectedBreakIndices(breakPoints, splitsNeeded, targetSentences, content) ==
    SelectFrom(breakPoints, splitsNeeded, targetSentences, TextLength(content),
               1, {})

\* Array.prototype.sort((a, b) => a - b) on a sequence of numbers.
SortNumbers(seq) ==
    [k \in 1..Len(seq) |->
        CHOOSE x \in {seq[i] : i \in 1..Len(seq)} :
            /\ Cardinality({i \in 1..Len(seq) : seq[i] < x}) < k
            /\ Cardinality({i \in 1..Len(seq) : seq[i] <= x}) >= k]

\* selectBestBreaks with the early return taken in every case: all the
\* break points, however few splits are needed.
selectAllBreaks(breakPoints, splitsNeeded, targetSentences, content) ==
    [k \in 1..Len(breakPoints) |-> breakPoints[k].htmlPosition]

selectBestBreaks(breakPoints, splitsNeeded, targetSentences, content) ==
    IF Len(breakPoints) <= splitsNeeded
    THEN [k \in 1..Len(breakPoints) |-> breakPoints[k].htmlPosition]
    ELSE LET selected == SelectedBreakIndices(breakPoints, splitsNeeded,
                                              targetSentences, content)
         IN  SortNumbers([k \in 1..Len(selected) |->
                            breakPoints[selected[k]].htmlPosition])

\* A loop that starts each piece one character after the break position.
RECURSIVE SplitPiecesSkipping(_, _, _, _)
SplitPiecesSkipping(content, breakPositions, k, lastPos) ==
    IF k > Len(breakPositions)
    THEN LET lastPiece == Trim(Substring(content, lastPos, Len(content)))
         IN  IF lastPiece # <<>> THEN <<lastPiece>> ELSE <<>>
    ELSE LET pos == breakPositions[k]
             piece == Trim(Substring(content, lastPos, pos))
         IN  (IF piece # <<>> THEN <<piece>> ELSE <<>>)
             \o SplitPiecesSkipping(content, breakPositions, k + 1, pos + 1)

\* The loop of splitAtBreakPoints from break position k on.
RECURSIVE SplitPiecesFrom(_, _, _, _)
SplitPiecesFrom(content, breakPositions, k, lastPos) ==
    IF k > Len(breakPositions)
    THEN LET lastPiece == Trim(Substring(content, lastPos, Len(content)))
         IN  IF lastPiece # <<>> THEN <<lastPiece>> ELSE <<>>
    ELSE LET pos == breakPositions[k]
             piece == Trim(Substring(content, lastPos, pos))
         IN  (IF piece # <<>> THEN <<piece>> ELSE <<>>)
             \o SplitPiecesFrom(content, breakPositions, k + 1, pos)

splitAtBreakPoints(content, breakPositions) ==
    IF Len(breakPositions) = 0 THEN <<content>>
    ELSE SplitPiecesFrom(content, breakPositions, 1, 0)

splitSentencesFuzzy(content, targetSentences) ==
    IF Trim(content) = <<>> THEN <<>>
    ELSE IF Len(targetSentences) = 0 THEN splitSentences(content)
    ELSE IF Len(targetSentences) = 1 THEN <<content>>
    ELSE LET breakPoints == findBreakPoints(content)
         IN  IF Len(breakPoints) = 0 THEN <<content>>
             ELSE splitAtBreakPoints(content,
                     selectBestBreaks(breakPoints, Len(targetSentences) - 1,
                                      targetSentences, content))

(***************************************************************************)
(* isPsalmContent                                                          *)
(***************************************************************************)

\* 'v-numbers'
VNumbersMarker ==
    <<"v", "-", "n", "u", "m", "b", "e", "r", "s">>

\* 'text-sm red'
TextSmRedMarker ==
    <<"t", "e", "x", "t", "-", "s", "m", " ", "r", "e", "d">>

\* Ant\. of /Ant\.|Antiphon/i, folded to lower case
AntDotWord ==
    <<"a", "n", "t", ".">>

\* Antiphon of /Ant\.|Antiphon/i, folded to lower case
AntiphonWord ==
    <<"a", "n", "t", "i", "p", "h", "o", "n">>

\* Psalm of /Psalm\s+\d+/i, folded to lower case
PsalmWord ==
    <<"p", "s", "a", "l", "m">>

\* Gloria Patri (with o-acute), folded to lower case
GloriaPatriWord ==
    <<"g", "l", "U+00F3", "r", "i", "a", " ", "p", "a", "t", "r", "i">>

\* Glory be to the Father, folded to lower case
GloryBeWord ==
    <<"g", "l", "o", "r", "y", " ", "b", "e", " ", "t", "o", " ", "t", "h",
      "e", " ", "f", "a", "t", "h", "e", "r">>

\* /^\d+\s/ : one or more digits at the start, then a white space.
RECURSIVE SkipDigits(_, _)
SkipDigits(s, i) ==
    IF i > Len(s) \/ s[i] \notin Digit THEN i ELSE SkipDigits(s, i + 1)

StartsWithVerseNumber(s) ==
    LET k == SkipDigits(s, 1)
    IN  k > 1 /\ k <= Len(s) /\ s[k] \in WhiteSpace

\* /Psalm\s+\d+/i on a text and its lower-case folding.
HasPsalmNumber(s, folded) ==
    \E i \in 1..(Len(s) - Len(PsalmWord)) :
        /\ HasAt(folded, i, PsalmWord)
        /\ LET k == SkipSpace(s, i + Len(PsalmWord))
           IN  k > i + Len(PsalmWord) /\ k <= Len(s) /\ s[k] \in Digit

\* The tests of isPsalmContent with patterns that lack the i flag: the words
\* are looked up in the text as it is written.
PsalmRulesCaseSensitive(content, textContent, folded) ==
    \/ StartsWithVerseNumber(textContent)
    \/ Includes(content, VNumbersMarker)
    \/ (/\ Includes(content, TextSmRedMarker)
        /\ textContent # <<>> /\ textContent[1] \in Digit)
    \/ \E i \in 1..Len(textContent) :
           textContent[i] \in {"*", "U+2020", "U+2021"}
    \/ Includes(textContent, <<"A">> \o Tail(AntDotWord))
    \/ Includes(textContent, <<"A">> \o Tail(AntiphonWord))
    \/ HasPsalmNumber(textContent, textContent)
    \/ Includes(textContent, <<"G">> \o Tail(GloriaPatriWord))
    \/ Includes(textContent, <<"G">> \o Tail(GloryBeWord))

\* The tests of isPsalmContent on the content, its trimmed text view and the
\* lower-case folding of that view (the i flag of the patterns).
PsalmRules(content, textContent, folded) ==
    \/ StartsWithVerseNumber(textContent)
    \/ Includes(content, VNumbersMarker)
    \/ (/\ Includes(content, TextSmRedMarker)
        /\ textContent # <<>> /\ textContent[1] \in Digit)
    \/ \E i \in 1..Len(textContent) :
           textContent[i] \in {"*", "U+2020", "U+2021"}
    \/ Includes(folded, AntDotWord)
    \/ Includes(folded, AntiphonWord)
    \/ HasPsalmNumber(textContent, folded)
    \/ Includes(folded, GloriaPatriWord)
    \/ Includes(folded, GloryBeWord)

\* TRUE for verse or psalm content, which is never split.
isPsalmContent(content) ==
    IF content = <<>> THEN FALSE
    ELSE LET textContent == Trim(ReplaceTags(content, <<" ">>))
         IN  PsalmRules(content, textContent, ToLowerCase(textContent))

(***************************************************************************)
(* The lines of text the model feeds to divs().                            *)
(***************************************************************************)

\* 1 Domine, labia mea aperies. * Et os meum annuntiabit laudem tuam.  (a psalm verse)
LatinVerse ==
    <<"1", " ", "D", "U+00F3", "m", "i", "n", "e", ",", " ", "l", "U+00E1",
      "b", "i", "a", " ", "m", "e", "a", " ", "a", "p", "U+00E9", "r", "i",
      "e", "s", ".", " ", "*", " ", "E", "t", " ", "o", "s", " ", "m", "e",
      "u", "m", " ", "a", "n", "n", "u", "n", "t", "i", "U+00E1", "b", "i",
      "t", " ", "l", "a", "u", "d", "e", "m", " ", "t", "u", "a", "m", ".">>

\* Deus, in adjutorium meum intende. Domine, ad adjuvandum me festina.
LatinProse ==
    <<"D", "e", "u", "s", ",", " ", "i", "n", " ", "a", "d", "j", "u", "t",
      "U+00F3", "r", "i", "u", "m", " ", "m", "e", "u", "m", " ", "i", "n",
      "t", "U+00E9", "n", "d", "e", ".", " ", "D", "U+00F3", "m", "i", "n",
      "e", ",", " ", "a", "d", " ", "a", "d", "j", "u", "v", "U+00E1", "n",
      "d", "u", "m", " ", "m", "e", " ", "f", "e", "s", "t", "U+00ED", "n",
      "a", ".">>

\* Deus, in adjutorium meum intende.
LatinProseFirst ==
    <<"D", "e", "u", "s", ",", " ", "i", "n", " ", "a", "d", "j", "u", "t",
      "U+00F3", "r", "i", "u", "m", " ", "m", "e", "u", "m", " ", "i", "n",
      "t", "U+00E9", "n", "d", "e", ".">>

\* Domine, ad adjuvandum me festina.
LatinProseSecond ==
    <<"D", "U+00F3", "m", "i", "n", "e", ",", " ", "a", "d", " ", "a", "d",
      "j", "u", "v", "U+00E1", "n", "d", "u", "m", " ", "m", "e", " ", "f",
      "e", "s", "t", "U+00ED", "n", "a", ".">>

\* <i>Pater</i> noster. Ave Maria. Credo.
LatinTagged ==
    <<"<", "i", ">", "P", "a", "t", "e", "r", "<", "/", "i", ">", " ", "n",
      "o", "s", "t", "e", "r", ".", " ", "A", "v", "e", " ", "M", "a", "r",
      "i", "a", ".", " ", "C", "r", "e", "d", "o", ".">>

\* O God, come to my assistance. O Lord, make haste to help me.
EnglishProse ==
    <<"O", " ", "G", "o", "d", ",", " ", "c", "o", "m", "e", " ", "t", "o",
      " ", "m", "y", " ", "a", "s", "s", "i", "s", "t", "a", "n", "c", "e",
      ".", " ", "O", " ", "L", "o", "r", "d", ",", " ", "m", "a", "k", "e",
      " ", "h", "a", "s", "t", "e", " ", "t", "o", " ", "h", "e", "l", "p",
      " ", "m", "e", ".">>

\* O God, come to my assistance.
EnglishProseFirst ==
    <<"O", " ", "G", "o", "d", ",", " ", "c", "o", "m", "e", " ", "t", "o",
      " ", "m", "y", " ", "a", "s", "s", "i", "s", "t", "a", "n", "c", "e",
      ".">>

\* O Lord, make haste to help me
EnglishProseSecond ==
    <<"O", " ", "L", "o", "r", "d", ",", " ", "m", "a", "k", "e", " ", "h",
      "a", "s", "t", "e", " ", "t", "o", " ", "h", "e", "l", "p", " ", "m",
      "e">>

\* Ant. Come, let us adore.  (an antiphon)
EnglishAntiphon ==
    <<"A", "n", "t", ".", " ", "C", "o", "m", "e", ",", " ", "l", "e", "t",
      " ", "u", "s", " ", "a", "d", "o", "r", "e", ".">>

\* Our Father. Hail Mary. I believe.
EnglishThree ==
    <<"O", "u", "r", " ", "F", "a", "t", "h", "e", "r", ".", " ", "H", "a",
      "i", "l", " ", "M", "a", "r", "y", ".", " ", "I", " ", "b", "e", "l",
      "i", "e", "v", "e", ".">>

\* 1 a. B.  (a numbered verse of two sentences)
ShortVerse ==
    <<"1", " ", "a", ".", " ", "B", ".">>

\* A b, c. D e.  (prose, two sentences)
ShortLatin ==
    <<"A", " ", "b", ",", " ", "c", ".", " ", "D", " ", "e", ".">>

\* <i>A</i>. B, c. D.  (prose with a tag, three sentences)
ShortTagged ==
    <<"<", "i", ">", "A", "<", "/", "i", ">", ".", " ", "B", ",", " ", "c",
      ".", " ", "D", ".">>

\* F g. H, i.  (prose, two sentences)
ShortEnglish ==
    <<"F", " ", "g", ".", " ", "H", ",", " ", "i", ".">>

\* F. G. H.  (prose, three sentences)
ShortThree ==
    <<"F", ".", " ", "G", ".", " ", "H", ".">>

\* Ant. F. G.  (an antiphon of two sentences)
ShortAntiphon ==
    <<"A", "n", "t", ".", " ", "F", ".", " ", "G", ".">>

\* Amen.
AmenLine ==
    <<"A", "m", "e", "n", ".">>

\* a line of white space
BlankLine ==
    <<" ", " ">>

\* a lone period: a line that is not blank and has no sentence unit
PeriodLine ==
    <<".">>


(***************************************************************************)
(* State.                                                                  *)
(*                                                                         *)
(* divs() on one table row (the body of rows.forEach):                     *)
(*   lang1, lang2  the two language names passed to divs()                 *)
(*   nosplit       getOpt("nosplit")                                       *)
(*   cells         the td cells of the row; a cell is its innerHTML as the *)
(*                 sequence of the pieces between its <br> markers         *)
(*   content1, content2, lineIdx, newTable   the locals of the same name;  *)
(*                 a row of newTable also records the line pair it was     *)
(*                 emitted for (line) and the branch that emitted it (path)*)
(*   pc            "idle", "start", "lines" (inside the for loop), "done"  *)
(*                                                                         *)
(* findBreakPoints() on one fragment:                                      *)
(*   fragment      the content passed to findBreakPoints                   *)
(*   breakPoints   the array it returns                                    *)
(*   fragSentences the array splitSentences returns for the fragment       *)
(*   fragPc        "idle", "start", "scanned" or "split"                   *)
(*                                                                         *)
(* One run of make(): downloadHoras() and then downloadExpands():          *)
(*   expands       the module-level array of mylexbor.js                   *)
(*   numDates      the number of dates from datefrom to dateto             *)
(*   hodie         getOpt("votive") === "Hodie"                            *)
(*   antepost      rubrics match /Divino|1910/ or getOpt("antepost")       *)
(*   dateIdx       the date the loop of downloadHoras is at (from 1)       *)
(*   runPc         where the run is                                        *)
(*   written       per date, the anchors of the expands.html links in the  *)
(*                 document written for it                                 *)
(*   fetchList     the local array expands of downloadExpands              *)
(*   pending       the indices of fetchList whose getPopup is in flight    *)
(*   pageAnchors   the ids of the fragments prepared for the expands page  *)
(*   docIds, readAfter, collectedBy, observed   history: per document the  *)
(*                 identifiers of its radio inputs and getExpands() as     *)
(*                 read right after it; the same per prepareExpand run     *)
(*                                                                         *)
(* One string given to toAscii, and its result given to it again:          *)
(*   text          the string                                              *)
(*   result        toAscii(text)                                           *)
(*   again         toAscii(result)                                         *)
(*   asciiPc       "idle", "start", "once" or "twice"                      *)
(*                                                                         *)
(* fontSpans() on one span, inside prepareHoras:                           *)
(*   span          the attributes of the span, each a name and a value     *)
(*   classes       the classes fontSpans gives the span                    *)
(*   fileWritten   prepareHoras has written the document of the date       *)
(*   spanPc        "idle", "start", "written" or "aborted"                 *)
(*                                                                         *)
(* One line of a cell through cleanHtml:                                   *)
(*   rawLine       the line as it stands when divs() runs: a span (its     *)
(*                 attributes attrs and text inner) and the text after it, *)
(*                 or text alone                                           *)
(*   cleanLine     the innerHTML of the line after the pipeline            *)
(*   rawLabel, cleanLabel   isPsalmContent on the one and on the other     *)
(*   linePc        "idle", "start", "classified", "cleaned",               *)
(*                 "reclassified" or "aborted"                             *)
(***************************************************************************)
(* (state, continued)                                                      *)
(***************************************************************************)
VARIABLES lang1, lang2, nosplit, cells, content1, content2, lineIdx,
          newTable, pc,
          fragment, breakPoints, fragSentences, fragPc,
          expands, numDates, hodie, antepost, dateIdx, runPc, written,
          docIds, readAfter, fetchList, pending, pageAnchors, collectedBy,
          observed,
          text, result, again, asciiPc,
          span, classes, fileWritten, spanPc,
          rawLine, cleanLine, rawLabel, cleanLabel, linePc,
          titleDoc, dateKey, title, raised, titlePc,
          psalmLine, psalmLabel, psalmPc,
          fuzzyContent, fuzzyTargets, fuzzyBreakPoints, selectedBreaks, fuzzyPieces, fuzzyPc,
          pipeDoc, pipeAscii, pipeStep, pipeLog, pipePc,
          inputDoc, idList, docLinks, docInputs, collectPc

divsVars == <<lang1, lang2, nosplit, cells, content1, content2, lineIdx,
              newTable, pc>>

fragVars == <<fragment, breakPoints, fragSentences, fragPc>>

runVars == <<expands, numDates, hodie, antepost, dateIdx, runPc, written,
             docIds, readAfter, fetchList, pending, pageAnchors, collectedBy,
             observed>>

asciiVars == <<text, result, again, asciiPc>>

spanVars == <<span, classes, fileWritten, spanPc>>

lineVars == <<rawLine, cleanLine, rawLabel, cleanLabel, linePc>>

titleVars == <<titleDoc, dateKey, title, raised, titlePc>>

psalmVars == <<psalmLine, psalmLabel, psalmPc>>

fuzzyVars == <<fuzzyContent, fuzzyTargets, fuzzyBreakPoints, selectedBreaks, fuzzyPieces, fuzzyPc>>

pipeVars == <<pipeDoc, pipeAscii, pipeStep, pipeLog, pipePc>>

collectVars == <<inputDoc, idList, docLinks, docInputs, collectPc>>

vars == <<divsVars, fragVars, runVars, asciiVars, spanVars, lineVars, titleVars, psalmVars, fuzzyVars, pipeVars, collectVars>>

\* The state of a part of the program that a specification does not run.
DivsIdle ==
    /\ lang1 = "Latin"
    /\ lang2 = "Latin"
    /\ nosplit = FALSE
    /\ cells = <<>>
    /\ content1 = <<>>
    /\ content2 = <<>>
    /\ lineIdx = 0
    /\ newTable = <<>>
    /\ pc = "idle"

FragIdle ==
    /\ fragment = <<>>
    /\ breakPoints = <<>>
    /\ fragSentences = <<>>
    /\ fragPc = "idle"

RunIdle ==
    /\ expands = <<>>
    /\ numDates = 0
    /\ hodie = FALSE
    /\ antepost = FALSE
    /\ dateIdx = 0
    /\ runPc = "idle"
    /\ written = <<>>
    /\ docIds = <<>>
    /\ readAfter = <<>>
    /\ fetchList = <<>>
    /\ pending = {}
    /\ pageAnchors = {}
    /\ collectedBy = <<>>
    /\ observed = <<>>

AsciiIdle ==
    /\ text = <<>>
    /\ result = <<>>
    /\ again = <<>>
    /\ asciiPc = "idle"

SpanIdle ==
    /\ span = <<>>
    /\ classes = <<>>
    /\ fileWritten = FALSE
    /\ spanPc = "idle"

LineIdle ==
    /\ rawLine = <<>>
    /\ cleanLine = <<>>
    /\ rawLabel = FALSE
    /\ cleanLabel = FALSE
    /\ linePc = "idle"

TitleIdle ==
    /\ titleDoc = <<>>
    /\ dateKey = <<>>
    /\ title = <<>>
    /\ raised = FALSE
    /\ titlePc = "idle"

PsalmIdle ==
    /\ psalmLine = <<>>
    /\ psalmLabel = FALSE
    /\ psalmPc = "idle"

FuzzyIdle ==
    /\ fuzzyContent = <<>>
    /\ fuzzyTargets = <<>>
    /\ fuzzyBreakPoints = <<>>
    /\ selectedBreaks = <<>>
    /\ fuzzyPieces = <<>>
    /\ fuzzyPc = "idle"

PipeIdle ==
    /\ pipeDoc = <<>>
    /\ pipeAscii = FALSE
    /\ pipeStep = 0
    /\ pipeLog = <<>>
    /\ pipePc = "idle"

CollectIdle ==
    /\ inputDoc = <<>>
    /\ idList = <<>>
    /\ docLinks = <<>>
    /\ docInputs = <<>>
    /\ collectPc = "idle"

(***************************************************************************)
(* divs()                                                                  *)
(***************************************************************************)

\* The most lines a cell of the model holds.
MaxLines == 2

\* The language names of the model: getDoOpt("LANGUAGES").
Languages == {"Latin", "English", "Polski"}

\* langMap[l] || l.substring(0, 2).toLowerCase()
LangCode(l) ==
    CASE l = "Latin" -> "la"
      [] l = "English" -> "en"
      [] l = "Polski" -> "pl"
      [] OTHER -> "??"

\* The sequences of 1..n elements of S.
SeqUpTo(S, n) == UNION {[1..k -> S] : k \in 1..n}

\* The lines a first cell and a second cell of the generated rows are made
\* of: a verse or an antiphon, prose of two and of three sentences, prose
\* with a tag.
Cell1Lines == {ShortVerse, ShortLatin, ShortTagged}
Cell2Lines == {ShortAntiphon, ShortEnglish, ShortThree}

\* Rows of liturgical text (the verse and the prose pair of the README's
\* examples, alone and one after the other), rows with a line that has
\* no sentence unit and rows with blank lines.
ExampleRows ==
    {<<<<LatinProse>>, <<EnglishProse>>>>,
     <<<<LatinVerse>>, <<EnglishProse>>>>,
     <<<<LatinProse>>, <<EnglishAntiphon>>>>,
     <<<<LatinVerse, LatinProse>>, <<EnglishAntiphon, EnglishProse>>>>,
     <<<<LatinTagged>>, <<EnglishThree>>>>,
     <<<<AmenLine, LatinProse>>, <<AmenLine>>>>,
     <<<<PeriodLine>>, <<ShortEnglish>>>>,
     <<<<ShortLatin>>, <<PeriodLine>>>>,
     <<<<BlankLine>>, <<BlankLine>>>>,
     <<<<BlankLine, ShortLatin>>, <<ShortEnglish, ShortThree>>>>,
     <<<<ShortLatin, ShortTagged>>, <<BlankLine, ShortEnglish>>>>}

\* The rows divs() is run on.
Rows ==
    {<<>>}
    \cup {<<c1>> : c1 \in SeqUpTo(Cell1Lines, MaxLines)}
    \cup {<<c1, c2>> : c1 \in SeqUpTo(Cell1Lines, MaxLines),
                       c2 \in SeqUpTo(Cell2Lines, MaxLines)}
    \cup ExampleRows

\* The pairs (lang1, lang2) of the model: one language, English second,
\* English first, no English.
LanguagePairs ==
    {<<"Latin", "Latin">>, <<"Latin", "English">>, <<"English", "Latin">>,
     <<"Latin", "Polski">>}

\* innerHTML.split(/<br>/i).map(line => line.trim()).filter(line => line)
RECURSIVE TrimmedLines(_)
TrimmedLines(rawLines) ==
    IF rawLines = <<>> THEN <<>>
    ELSE IF Trim(Head(rawLines)) # <<>>
         THEN <<Trim(Head(rawLines))>> \o TrimmedLines(Tail(rawLines))
         ELSE TrimmedLines(Tail(rawLines))

\* lineIdx < content.length ? content[lineIdx] : ""   (lineIdx is 0-based)
LineAt(content, idx) == IF idx < Len(content) THEN content[idx + 1] ELSE <<>>

Max(a, b) == IF a >= b THEN a ELSE b

\* const maxLines = Math.max(content1.length, content2.length)
maxLines == Max(Len(content1), Len(content2))

\* Two cells whatever the languages.
RowCellsBoth(html1, html2) ==
    <<[class |-> "table-cell lang1", lang |-> LangCode(lang1), html |-> html1],
      [class |-> "table-cell lang2", lang |-> LangCode(lang2), html |-> html2]>>

\* The one or two cells of an output row.
RowCells(html1, html2) ==
    IF lang1 = lang2
    THEN <<[class |-> "table-cell lang0", lang |-> LangCode(lang1), html |-> html1]>>
    ELSE <<[class |-> "table-cell lang1", lang |-> LangCode(lang1), html |-> html1],
           [class |-> "table-cell lang2", lang |-> LangCode(lang2), html |-> html2]>>

\* The row of the psalm branch and of the nosplit branch: the two lines as
\* they stand.
SingleRow(line1, line2, path) ==
    <<[cells |-> RowCells(line1, line2), line |-> lineIdx, path |-> path]>>

\* Sentences1 with the first column always taken as the reference.
Sentences1FirstIsReference(l1, l2) == splitSentences(l1)

\* sentences1 and sentences2 of the split branch.
Sentences1(line1, line2) ==
    IF lang1 # lang2
    THEN IF LangCode(lang2) = "en"
         THEN splitSentencesFuzzy(line1, splitSentences(line2))
         ELSE splitSentences(line1)
    ELSE splitSentences(line1)

\* Sentences2 with the second column never aligned: it is split on its own.
Sentences2Unaligned(l1, l2) == splitSentences(l2)

Sentences2(line1, line2) ==
    IF lang1 # lang2
    THEN IF LangCode(lang2) = "en"
         THEN splitSentences(line2)
         ELSE splitSentencesFuzzy(line2, splitSentences(line1))
    ELSE splitSentences(line2)

\* sentIdx < sentences.length ? sentences[sentIdx] : ""   (sentIdx is 1-based here)
SentenceAt(sentences, sentIdx) ==
    IF sentIdx <= Len(sentences) THEN sentences[sentIdx] ELSE <<>>

\* SplitRows with a missing slot filled by the last sentence of its column
\* instead of the empty string.
SplitRowsRepeating(l1, l2) ==
    LET sentences1 == Sentences1(l1, l2)
        sentences2 == Sentences2(l1, l2)
        maxSentences == Max(Len(sentences1), Len(sentences2))
        Slot(sentences, sentIdx) ==
            IF sentIdx <= Len(sentences) THEN sentences[sentIdx]
            ELSE IF Len(sentences) > 0 THEN sentences[Len(sentences)]
            ELSE <<>>
    IN  [sentIdx \in 1..maxSentences |->
            [cells |-> RowCells(Slot(sentences1, sentIdx),
                                Slot(sentences2, sentIdx)),
             line |-> lineIdx,
             path |-> "split"]]

\* The rows of the split branch: one per sentence slot.
SplitRows(line1, line2) ==
    LET sentences1 == Sentences1(line1, line2)
        sentences2 == Sentences2(line1, line2)
        maxSentences == Max(Len(sentences1), Len(sentences2))
    IN  [sentIdx \in 1..maxSentences |->
            [cells |-> RowCells(SentenceAt(sentences1, sentIdx),
                                SentenceAt(sentences2, sentIdx)),
             line |-> lineIdx,
             path |-> "split"]]

\* const line1 = ..., const line2 = ... of the loop body
line1 == LineAt(content1, lineIdx)
line2 == LineAt(content2, lineIdx)

\* this.isPsalmContent(line1) || this.isPsalmContent(line2)
PairIsPsalm(l1, l2) == isPsalmContent(l1) \/ isPsalmContent(l2)

\* if (cells.length === 0) return;
NoCells ==
    /\ pc = "start"
    /\ Len(cells) = 0
    /\ pc' = "done"
    /\ UNCHANGED <<lang1, lang2, nosplit, cells, content1, content2, lineIdx,
                   newTable>>
    /\ UNCHANGED <<fragVars, runVars, asciiVars, spanVars, lineVars, titleVars, psalmVars, fuzzyVars, pipeVars, collectVars>>

\* The split of the cells into lines, and the entry into the for loop.
SplitCells ==
    /\ pc = "start"
    /\ Len(cells) > 0
    /\ content1' = TrimmedLines(cells[1])
    /\ content2' = IF Len(cells) > 1 THEN TrimmedLines(cells[2]) ELSE <<>>
    /\ lineIdx' = 0
    /\ pc' = "lines"
    /\ UNCHANGED <<lang1, lang2, nosplit, cells, newTable>>
    /\ UNCHANGED <<fragVars, runVars, asciiVars, spanVars, lineVars, titleVars, psalmVars, fuzzyVars, pipeVars, collectVars>>

\* One pass of the for loop is one of the three Emit actions.  The guard
\* "if (!line1.trim() && !line2.trim()) continue" never holds, since blank
\* lines have been filtered out and lineIdx < maxLines; the pass it would
\* skip is left out of the model.
InLoop ==
    /\ pc = "lines"
    /\ lineIdx < maxLines
    /\ ~(Trim(line1) = <<>> /\ Trim(line2) = <<>>)

\* EmitVerse with the psalm branch fallen through to the split branch.
EmitVerseSplitting ==
    /\ InLoop
    /\ PairIsPsalm(line1, line2)
    /\ newTable' = newTable \o SplitRows(line1, line2)
    /\ lineIdx' = lineIdx + 1
    /\ UNCHANGED <<lang1, lang2, nosplit, cells, content1, content2, pc>>
    /\ UNCHANGED <<fragVars, runVars, asciiVars, spanVars, lineVars, titleVars, psalmVars, fuzzyVars, pipeVars, collectVars>>

\* if (isPsalmContent) { ... one row, no sentence splitting ... }
EmitVerse ==
    /\ InLoop
    /\ PairIsPsalm(line1, line2)
    /\ newTable' = newTable \o SingleRow(line1, line2, "verse")
    /\ lineIdx' = lineIdx + 1
    /\ UNCHANGED <<lang1, lang2, nosplit, cells, content1, content2, pc>>
    /\ UNCHANGED <<fragVars, runVars, asciiVars, spanVars, lineVars, titleVars, psalmVars, fuzzyVars, pipeVars, collectVars>>

\* EmitNoSplit with the nosplit option read but not obeyed.
EmitNoSplitSplitting ==
    /\ InLoop
    /\ ~PairIsPsalm(line1, line2)
    /\ nosplit
    /\ newTable' = newTable \o SplitRows(line1, line2)
    /\ lineIdx' = lineIdx + 1
    /\ UNCHANGED <<lang1, lang2, nosplit, cells, content1, content2, pc>>
    /\ UNCHANGED <<fragVars, runVars, asciiVars, spanVars, lineVars, titleVars, psalmVars, fuzzyVars, pipeVars, collectVars>>

\* else if (getOpt("nosplit")) { ... one row ... }
EmitNoSplit ==
    /\ InLoop
    /\ ~PairIsPsalm(line1, line2)
    /\ nosplit
    /\ newTable' = newTable \o SingleRow(line1, line2, "nosplit")
    /\ lineIdx' = lineIdx + 1
    /\ UNCHANGED <<lang1, lang2, nosplit, cells, content1, content2, pc>>
    /\ UNCHANGED <<fragVars, runVars, asciiVars, spanVars, lineVars, titleVars, psalmVars, fuzzyVars, pipeVars, collectVars>>

\* else { ... one row per sentence ... }
EmitSplit ==
    /\ InLoop
    /\ ~PairIsPsalm(line1, line2)
    /\ ~nosplit
    /\ newTable' = newTable \o SplitRows(line1, line2)
    /\ lineIdx' = lineIdx + 1
    /\ UNCHANGED <<lang1, lang2, nosplit, cells, content1, content2, pc>>
    /\ UNCHANGED <<fragVars, runVars, asciiVars, spanVars, lineVars, titleVars, psalmVars, fuzzyVars, pipeVars, collectVars>>

\* The end of the for loop.
EndRow ==
    /\ pc = "lines"
    /\ lineIdx >= maxLines
    /\ pc' = "done"
    /\ UNCHANGED <<lang1, lang2, nosplit, cells, content1, content2, lineIdx,
                   newTable>>
    /\ UNCHANGED <<fragVars, runVars, asciiVars, spanVars, lineVars, titleVars, psalmVars, fuzzyVars, pipeVars, collectVars>>

DivsInit ==
    /\ \E pair \in LanguagePairs : lang1 = pair[1] /\ lang2 = pair[2]
    /\ nosplit \in BOOLEAN
    /\ cells \in Rows
    /\ content1 = <<>>
    /\ content2 = <<>>
    /\ lineIdx = 0
    /\ newTable = <<>>
    /\ pc = "start"

Init == DivsInit /\ FragIdle /\ RunIdle /\ AsciiIdle /\ SpanIdle /\ LineIdle /\ TitleIdle /\ PsalmIdle /\ FuzzyIdle /\ PipeIdle /\ CollectIdle

Next ==
    \/ NoCells
    \/ SplitCells
    \/ EmitVerse
    \/ EmitNoSplit
    \/ EmitSplit
    \/ EndRow

\* divs() on one table row.
Spec == Init /\ [][Next]_vars

(***************************************************************************)
(* Properties of divs(), checked under Spec.                               *)
(***************************************************************************)

\* The line pairs the for loop has been through: 0 .. lineIdx - 1.
ProcessedPairs == IF pc \in {"lines", "done"} THEN 0..(lineIdx - 1) ELSE {}

\* The rows emitted for line pair i, in the order of emission.
RowsOf(i) == SelectSeq(newTable, LAMBDA row : row.line = i)

\* The contents of the cells of a row.
CellsHtml(row) == [k \in 1..Len(row.cells) |-> row.cells[k].html]

\* The lines of pair i as they stand.
PairAsItStands(i) ==
    IF lang1 = lang2 THEN <<LineAt(content1, i)>>
    ELSE <<LineAt(content1, i), LineAt(content2, i)>>

\* C1: a line pair of which at least one line is psalm content gets exactly
\* one row, whose cells hold the lines unsplit, with nosplit on or off.
C1_VerseOneRow ==
    \A i \in ProcessedPairs :
        PairIsPsalm(LineAt(content1, i), LineAt(content2, i))
        => /\ Len(RowsOf(i)) = 1
           /\ CellsHtml(RowsOf(i)[1]) = PairAsItStands(i)

\* C1 witness: with splitting enabled and two languages, a verse of more
\* than one sentence has been emitted as one row.
C1_Witness ==
    /\ pc = "done"
    /\ ~nosplit
    /\ lang1 # lang2
    /\ \E i \in ProcessedPairs :
          /\ isPsalmContent(LineAt(content1, i))
          /\ Len(splitSentences(LineAt(content1, i))) > 1
          /\ Len(RowsOf(i)) = 1
          /\ RowsOf(i)[1].path = "verse"

\* C2: with nosplit on, every line pair of the row gets exactly one row,
\* whatever its classification and its number of sentences.
C2_NoSplitOneRow ==
    (pc = "done" /\ nosplit /\ Len(cells) > 0)
    => /\ Len(newTable) = maxLines
       /\ \A i \in 0..(maxLines - 1) :
             /\ Len(RowsOf(i)) = 1
             /\ CellsHtml(RowsOf(i)[1]) = PairAsItStands(i)

\* C2 witness: with nosplit on, a prose pair of several sentences in both
\* columns has been emitted as one row.
C2_Witness ==
    /\ pc = "done"
    /\ nosplit
    /\ \E i \in ProcessedPairs :
          /\ ~PairIsPsalm(LineAt(content1, i), LineAt(content2, i))
          /\ Len(splitSentences(LineAt(content1, i))) > 1
          /\ Len(splitSentences(LineAt(content2, i))) > 1
          /\ Len(RowsOf(i)) = 1
          /\ RowsOf(i)[1].path = "nosplit"

\* sentences1 and sentences2 of pair i.
UnitsOf1(i) == Sentences1(LineAt(content1, i), LineAt(content2, i))
UnitsOf2(i) == Sentences2(LineAt(content1, i), LineAt(content2, i))

\* C3: with splitting enabled and no line of the pair psalm content, the
\* pair gets max(units of column 1, units of column 2) rows; row k holds
\* unit k of each column, and the empty string where a column has no unit k.
C3_SplitRowsAreMax ==
    ~nosplit =>
    \A i \in ProcessedPairs :
        ~PairIsPsalm(LineAt(content1, i), LineAt(content2, i))
        => /\ Len(RowsOf(i)) = Max(Len(UnitsOf1(i)), Len(UnitsOf2(i)))
           /\ \A k \in 1..Len(RowsOf(i)) :
                 CellsHtml(RowsOf(i)[k]) =
                    IF lang1 = lang2
                    THEN <<SentenceAt(UnitsOf1(i), k)>>
                    ELSE <<SentenceAt(UnitsOf1(i), k), SentenceAt(UnitsOf2(i), k)>>

\* C3 witness: a prose pair whose columns have different numbers of units,
\* both at least one, emitted with an empty cell in its last row.
C3_Witness ==
    /\ pc = "done"
    /\ ~nosplit
    /\ lang1 # lang2
    /\ \E i \in ProcessedPairs :
          /\ ~PairIsPsalm(LineAt(content1, i), LineAt(content2, i))
          /\ Len(UnitsOf1(i)) >= 1
          /\ Len(UnitsOf2(i)) >= 1
          /\ Len(UnitsOf1(i)) # Len(UnitsOf2(i))
          /\ Len(RowsOf(i)) >= 2
          /\ <<>> \in {CellsHtml(RowsOf(i)[Len(RowsOf(i))])[k] : k \in 1..2}

\* The line of pair i that splitSentences segments (the reference) and the
\* line that splitSentencesFuzzy aligns with it (the companion).
ReferenceLine(i) ==
    IF LangCode(lang2) = "en" THEN LineAt(content2, i) ELSE LineAt(content1, i)
CompanionLine(i) ==
    IF LangCode(lang2) = "en" THEN LineAt(content1, i) ELSE LineAt(content2, i)

\* The prose pairs the split branch has been through with two languages.
AlignedPairs ==
    IF ~nosplit /\ lang1 # lang2
    THEN {i \in ProcessedPairs :
            ~PairIsPsalm(LineAt(content1, i), LineAt(content2, i))}
    ELSE {}

\* C4 as stated: a prose pair whose reference line has n units gets at most
\* n rows, for every n, n = 0 included.
C4_AtMostReferenceRows ==
    \A i \in AlignedPairs :
        Len(RowsOf(i)) <= Len(splitSentences(ReferenceLine(i)))

\* C4 amended: at most n rows when n >= 1; when n = 0 the companion is
\* segmented on its own and gets one row per unit.
C4_AtMostReferenceRowsFromOne ==
    \A i \in AlignedPairs :
        LET n == Len(splitSentences(ReferenceLine(i)))
        IN  /\ n >= 1 => Len(RowsOf(i)) <= n
            /\ n = 0 => Len(RowsOf(i)) = Len(splitSentences(CompanionLine(i)))

\* C4 witness: a reference of n >= 2 units, a companion with more break
\* points than the n - 1 splits needed, and n rows emitted.
C4_Witness ==
    /\ pc = "done"
    /\ \E i \in AlignedPairs :
          LET n == Len(splitSentences(ReferenceLine(i)))
          IN  /\ n >= 2
              /\ Len(findBreakPoints(CompanionLine(i))) > n - 1
              /\ Len(RowsOf(i)) = n

MaxFragLen == 5

\* The characters the fragments are made of: a lower-case letter, an
\* upper-case letter, a period, a space and the two tag delimiters.
FragAlphabet == {"a", "B", ".", " ", "<", ">"}

\* The sequences of 0..n elements of S.
StringsUpTo(S, n) == UNION {[1..k -> S] : k \in 0..n}

FragInit ==
    /\ fragment \in StringsUpTo(FragAlphabet, MaxFragLen)
    /\ breakPoints = <<>>
    /\ fragSentences = <<>>
    /\ fragPc = "start"

\* const breakPoints = this.findBreakPoints(content)
ScanFragment ==
    /\ fragPc = "start"
    /\ breakPoints' = findBreakPoints(fragment)
    /\ fragPc' = "scanned"
    /\ UNCHANGED <<fragment, fragSentences>>
    /\ UNCHANGED <<divsVars, runVars, asciiVars, spanVars, lineVars, titleVars, psalmVars, fuzzyVars, pipeVars, collectVars>>

\* const sentences = this.splitSentences(content)
SplitFragment ==
    /\ fragPc = "start"
    /\ fragSentences' = splitSentences(fragment)
    /\ fragPc' = "split"
    /\ UNCHANGED <<fragment, breakPoints>>
    /\ UNCHANGED <<divsVars, runVars, asciiVars, spanVars, lineVars, titleVars, psalmVars, fuzzyVars, pipeVars, collectVars>>

InitFrag == FragInit /\ DivsIdle /\ RunIdle /\ AsciiIdle /\ SpanIdle /\ LineIdle /\ TitleIdle /\ PsalmIdle /\ FuzzyIdle /\ PipeIdle /\ CollectIdle

NextFrag ==
    \/ ScanFragment
    \/ SplitFragment

SpecFrag == InitFrag /\ [][NextFrag]_vars

(***************************************************************************)
(* Properties of findBreakPoints(), checked under SpecFrag.                *)
(***************************************************************************)

\* For every character of the text view of findBreakPoints, the index in
\* the content of the character it is a copy of, and 0 for the space that
\* stands for a tag.
RECURSIVE TextViewOriginFrom(_, _)
TextViewOriginFrom(s, i) ==
    IF i > Len(s) THEN <<>>
    ELSE IF s[i] = "<" /\ NextGt(s, i) # 0
         THEN <<0>> \o TextViewOriginFrom(s, NextGt(s, i) + 1)
         ELSE <<i>> \o TextViewOriginFrom(s, i + 1)

\* The 0-based offset in the content immediately after the mark of a break
\* point: the 1-based index of the mark itself.
OffsetAfterMark(content, breakPoint) ==
    TextViewOriginFrom(content, 1)[breakPoint.position]

\* A fragment all of whose "<" and ">" delimit tags: stripping the tags
\* leaves neither.
TagsAreClosed(content) ==
    \A i \in 1..Len(ReplaceTags(content, <<>>)) :
        ReplaceTags(content, <<>>)[i] \notin {"<", ">"}

\* C6: the htmlPosition of every break point is the offset immediately
\* after its own punctuation mark in the fragment, tags or no tags.
C6_OffsetAfterMark ==
    (fragPc = "scanned" /\ TagsAreClosed(fragment))
    => \A k \in 1..Len(breakPoints) :
          breakPoints[k].htmlPosition = OffsetAfterMark(fragment, breakPoints[k])

(***************************************************************************)
(* One run of make(): downloadHoras(), then downloadExpands()              *)
(***************************************************************************)

\* The most dates of a run and the most radio inputs of a document.
MaxDates == 2
MaxInputs == 2

\* The identifiers the onclick attributes of the radio inputs carry.
ExpandIds == {"$Pater noster", "$Ave Maria"}

\* The documents getHoras can return, each as the identifiers of its radio
\* inputs in document order.
HorasDocs == StringsUpTo(ExpandIds, MaxInputs)

\* The documents getPopup can return, likewise.
PopupDocs == {<<>>, <<"$Pater noster">>}

\* expandSection.substring(1).replace(/ /g, "_") of collectExpands, and
\* item.replace(/ /g, "_") of prepareExpand for item = e.substring(1).
AnchorOf(e) ==
    CASE e = "$Pater noster" -> "Pater_noster"
      [] e = "$Ave Maria" -> "Ave_Maria"
      [] e = "$Ante" -> "Ante"
      [] e = "$Post" -> "Post"

\* [...new Set(list)] : the first occurrence of every element, in order.
RECURSIVE Unique(_)
Unique(list) ==
    IF list = <<>> THEN <<>>
    ELSE LET init == Unique(SubSeq(list, 1, Len(list) - 1))
             last == list[Len(list)]
         IN  IF \E k \in 1..Len(init) : init[k] = last
             THEN init ELSE Append(init, last)

Range(seq) == {seq[k] : k \in 1..Len(seq)}

\* getExpands()
getExpands(list) == Unique(list)

\* clearExpands() left out: the array as it was.
keepExpands == expands

\* clearExpands(): the new value of the array.
clearExpands == <<>>

\* collectExpands() on a document: one push per radio input with onclick.
collectExpands(list, doc) == list \o doc

\* The anchors of the links collectExpands writes into a document.
LinksOf(doc) == {AnchorOf(doc[k]) : k \in 1..Len(doc)}

RunInit ==
    /\ expands = <<>>
    /\ numDates \in 1..MaxDates
    /\ hodie \in BOOLEAN
    /\ antepost \in BOOLEAN
    /\ dateIdx = 1
    /\ runPc = "loop"
    /\ written = <<>>
    /\ docIds = <<>>
    /\ readAfter = <<>>
    /\ fetchList = <<>>
    /\ pending = {}
    /\ pageAnchors = {}
    /\ collectedBy = <<>>
    /\ observed = <<>>

\* downloadHoras, the head of the loop body: clearExpands(), then the
\* request getHoras(dateStr) is sent.
ClearExpandsForDate ==
    /\ runPc = "loop"
    /\ dateIdx <= numDates
    /\ expands' = clearExpands
    /\ runPc' = "prepare"
    /\ UNCHANGED <<numDates, hodie, antepost, dateIdx, written, docIds,
                   readAfter, fetchList, pending, pageAnchors, collectedBy,
                   observed>>
    /\ UNCHANGED <<divsVars, fragVars, asciiVars, spanVars, lineVars, titleVars, psalmVars, fuzzyVars, pipeVars, collectVars>>

\* downloadHoras, the rest of the loop body: the document arrives,
\* prepareHoras cleans it (collectExpands pushes its identifiers and writes
\* its links) and writes the file; the loop breaks unless votive is Hodie.
PrepareHoras ==
    /\ runPc = "prepare"
    /\ \E doc \in HorasDocs :
          /\ expands' = collectExpands(expands, doc)
          /\ written' = Append(written, LinksOf(doc))
          /\ docIds' = Append(docIds, doc)
          /\ readAfter' = Append(readAfter, getExpands(expands'))
    /\ dateIdx' = dateIdx + 1
    /\ runPc' = IF hodie /\ dateIdx < numDates THEN "loop" ELSE "expands"
    /\ UNCHANGED <<numDates, hodie, antepost, fetchList, pending, pageAnchors,
                   collectedBy, observed>>
    /\ UNCHANGED <<divsVars, fragVars, asciiVars, spanVars, lineVars, titleVars, psalmVars, fuzzyVars, pipeVars, collectVars>>

\* downloadExpands: "Clear any existing expands first".
ClearExpandsBeforeDownload ==
    /\ runPc = "expands"
    /\ expands' = clearExpands
    /\ runPc' = "read"
    /\ UNCHANGED <<numDates, hodie, antepost, dateIdx, written, docIds,
                   readAfter, fetchList, pending, pageAnchors, collectedBy,
                   observed>>
    /\ UNCHANGED <<divsVars, fragVars, asciiVars, spanVars, lineVars, titleVars, psalmVars, fuzzyVars, pipeVars, collectVars>>

\* downloadExpands: const expands = await Lexbor.getExpands(), $Ante and
\* $Post put in front when the rubrics ask for them, and one getPopup
\* request sent per element.
ReadExpands ==
    /\ runPc = "read"
    /\ fetchList' = IF antepost
                    THEN Unique(<<"$Ante", "$Post">> \o getExpands(expands))
                    ELSE getExpands(expands)
    /\ pending' = 1..Len(fetchList')
    /\ collectedBy' = [k \in 1..Len(fetchList') |-> <<>>]
    /\ observed' = [k \in 1..Len(fetchList') |-> <<>>]
    /\ runPc' = "tasks"
    /\ UNCHANGED <<expands, numDates, hodie, antepost, dateIdx, written, docIds,
                   readAfter, pageAnchors>>
    /\ UNCHANGED <<divsVars, fragVars, asciiVars, spanVars, lineVars, titleVars, psalmVars, fuzzyVars, pipeVars, collectVars>>

\* One callback of the Promise.all: the popup of element k arrives and
\* prepareExpand cleans it, in whatever order the responses come.
PrepareExpand ==
    /\ runPc = "tasks"
    /\ \E k \in pending, doc \in PopupDocs :
          /\ expands' = collectExpands(expands, doc)
          /\ pending' = pending \ {k}
          /\ pageAnchors' = pageAnchors \cup {AnchorOf(fetchList[k])}
          /\ collectedBy' = [collectedBy EXCEPT ![k] = doc]
          /\ observed' = [observed EXCEPT ![k] = getExpands(expands')]
    /\ UNCHANGED <<numDates, hodie, antepost, dateIdx, runPc, written, docIds,
                   readAfter, fetchList>>
    /\ UNCHANGED <<divsVars, fragVars, asciiVars, spanVars, lineVars, titleVars, psalmVars, fuzzyVars, pipeVars, collectVars>>

\* The Promise.all resolves; make() goes on to write the expands page.
FinishExpands ==
    /\ runPc = "tasks"
    /\ pending = {}
    /\ runPc' = "done"
    /\ UNCHANGED <<expands, numDates, hodie, antepost, dateIdx, written, docIds,
                   readAfter, fetchList, pending, pageAnchors, collectedBy,
                   observed>>
    /\ UNCHANGED <<divsVars, fragVars, asciiVars, spanVars, lineVars, titleVars, psalmVars, fuzzyVars, pipeVars, collectVars>>

InitRun == RunInit /\ DivsIdle /\ FragIdle /\ AsciiIdle /\ SpanIdle /\ LineIdle /\ TitleIdle /\ PsalmIdle /\ FuzzyIdle /\ PipeIdle /\ CollectIdle

NextRun ==
    \/ ClearExpandsForDate
    \/ PrepareHoras
    \/ ClearExpandsBeforeDownload
    \/ ReadExpands
    \/ PrepareExpand
    \/ FinishExpands

SpecRun == InitRun /\ [][NextRun]_vars

(***************************************************************************)
(* Properties of the run, checked under SpecRun.                           *)
(***************************************************************************)

\* C7: once the run is done, every link expands.html#<id> written into a
\* date's document has a fragment with that id in the expands page.
C7_LinksResolved ==
    runPc = "done"
    => \A d \in 1..Len(written) : written[d] \subseteq pageAnchors

\* C8 as stated: the list read after a document holds the identifiers of
\* that document only, and the lists of two documents are disjoint.
C8_ListsDisjoint ==
    /\ \A k \in 1..Len(readAfter) : Range(readAfter[k]) \subseteq Range(docIds[k])
    /\ \A j, k \in 1..Len(readAfter) :
          j < k => Range(readAfter[j]) \cap Range(readAfter[k]) = {}

\* C8 amended: the list read after a document is the identifiers of that
\* document, each once, in document order; nothing of an earlier document
\* is carried over, and two lists share an identifier only when both
\* documents hold it.
C8_ListIsOwnDocument ==
    /\ \A k \in 1..Len(readAfter) : readAfter[k] = Unique(docIds[k])
    /\ \A j, k \in 1..Len(readAfter) :
          j < k => Range(readAfter[j]) \cap Range(readAfter[k])
                     = Range(docIds[j]) \cap Range(docIds[k])

\* C8 witness: two documents have been processed one after the other, the
\* first with an identifier the second lacks, and the second not empty.
C8_Witness ==
    /\ Len(readAfter) = 2
    /\ readAfter[2] # <<>>
    /\ \E e \in Range(docIds[1]) : e \notin Range(docIds[2]) /\ e \notin Range(readAfter[2])

\* C9: the list a prepareExpand run reads when it ends holds only the
\* identifiers that run collected.
C9_RunSeesOwnIdsOnly ==
    runPc \in {"tasks", "done"}
    => \A k \in (1..Len(fetchList)) \ pending :
          Range(observed[k]) \subseteq Range(collectedBy[k])

(***************************************************************************)
(* toAscii                                                                 *)
(***************************************************************************)

\* The entries of charMap as Object.entries yields them: every key once, in
\* the order of its first appearance in the literal, with its replacement.
charMap ==
    <<<<"U+0101", <<"a">>>>, <<"U+0103", <<"a">>>>, <<"U+00E0", <<"a">>>>,
      <<"U+00E1", <<"a">>>>, <<"U+00E2", <<"a">>>>, <<"U+00E3", <<"a">>>>,
      <<"U+00E4", <<"a">>>>, <<"U+00E5", <<"a">>>>,
      <<"U+00E6", <<"a", "e">>>>, <<"U+01FD", <<"a", "e">>>>,
      <<"U+0113", <<"e">>>>, <<"U+0115", <<"e">>>>, <<"U+00E8", <<"e">>>>,
      <<"U+00E9", <<"e">>>>, <<"U+00EA", <<"e">>>>, <<"U+00EB", <<"e">>>>,
      <<"U+012B", <<"i">>>>, <<"U+012D", <<"i">>>>, <<"U+00EC", <<"i">>>>,
      <<"U+00ED", <<"i">>>>, <<"U+00EE", <<"i">>>>, <<"U+00EF", <<"i">>>>,
      <<"U+014D", <<"o">>>>, <<"U+014F", <<"o">>>>, <<"U+00F2", <<"o">>>>,
      <<"U+00F3", <<"o">>>>, <<"U+00F4", <<"o">>>>, <<"U+00F5", <<"o">>>>,
      <<"U+00F6", <<"o">>>>, <<"U+00F8", <<"o">>>>,
      <<"U+0153", <<"o", "e">>>>, <<"U+016B", <<"u">>>>,
      <<"U+016D", <<"u">>>>, <<"U+00F9", <<"u">>>>, <<"U+00FA", <<"u">>>>,
      <<"U+00FB", <<"u">>>>, <<"U+00FC", <<"u">>>>, <<"U+0233", <<"y">>>>,
      <<"U+1EF3", <<"y">>>>, <<"U+00FD", <<"y">>>>, <<"U+0177", <<"y">>>>,
      <<"U+00FF", <<"y">>>>, <<"U+0100", <<"A">>>>, <<"U+0102", <<"A">>>>,
      <<"U+00C0", <<"A">>>>, <<"U+00C1", <<"A">>>>, <<"U+00C2", <<"A">>>>,
      <<"U+00C3", <<"A">>>>, <<"U+00C4", <<"A">>>>, <<"U+00C5", <<"A">>>>,
      <<"U+00C6", <<"A", "E">>>>, <<"U+01FC", <<"A", "E">>>>,
      <<"U+0112", <<"E">>>>, <<"U+0114", <<"E">>>>, <<"U+00C8", <<"E">>>>,
      <<"U+00C9", <<"E">>>>, <<"U+00CA", <<"E">>>>, <<"U+00CB", <<"E">>>>,
      <<"U+012A", <<"I">>>>, <<"U+012C", <<"I">>>>, <<"U+00CC", <<"I">>>>,
      <<"U+00CD", <<"I">>>>, <<"U+00CE", <<"I">>>>, <<"U+00CF", <<"I">>>>,
      <<"U+014C", <<"O">>>>, <<"U+014E", <<"O">>>>, <<"U+00D2", <<"O">>>>,
      <<"U+00D3", <<"O">>>>, <<"U+00D4", <<"O">>>>, <<"U+00D5", <<"O">>>>,
      <<"U+00D6", <<"O">>>>, <<"U+00D8", <<"O">>>>,
      <<"U+0152", <<"O", "E">>>>, <<"U+016A", <<"U">>>>,
      <<"U+016C", <<"U">>>>, <<"U+00D9", <<"U">>>>, <<"U+00DA", <<"U">>>>,
      <<"U+00DB", <<"U">>>>, <<"U+00DC", <<"U">>>>, <<"U+0232", <<"Y">>>>,
      <<"U+1EF2", <<"Y">>>>, <<"U+00DD", <<"Y">>>>, <<"U+0176", <<"Y">>>>,
      <<"U+0178", <<"Y">>>>, <<"U+00E7", <<"c">>>>, <<"U+00C7", <<"C">>>>,
      <<"U+00F1", <<"n">>>>, <<"U+00D1", <<"N">>>>,
      <<"U+00DF", <<"s", "s">>>>, <<"U+2018", <<"'">>>>,
      <<"U+2019", <<"'">>>>, <<"U+201C", <<"\"">>>>, <<"U+201D", <<"\"">>>>,
      <<"U+2013", <<"-">>>>, <<"U+2014", <<"-">>>>,
      <<"U+2026", <<".", ".", ".">>>>, <<"U+20AC", <<"E", "U", "R">>>>,
      <<"U+00A3", <<"G", "B", "P">>>>, <<"U+00A9", <<"(", "c", ")">>>>,
      <<"U+00AE", <<"(", "r", ")">>>>, <<"U+00D7", <<"x">>>>,
      <<"U+00F7", <<"/">>>>, <<"U+00B1", <<"+", "/", "-">>>>,
      <<"U+2264", <<"<", "=">>>>, <<"U+2265", <<">", "=">>>>>>

\* The keys of charMap.
CharMapKeys == {charMap[k][1] : k \in 1..Len(charMap)}

\* text.replace(accented, ascii) : the first occurrence only.
RECURSIVE ReplaceFirst(_, _, _)
ReplaceFirst(s, accented, ascii) ==
    IF s = <<>> THEN <<>>
    ELSE IF Head(s) = accented THEN ascii \o Tail(s)
    ELSE <<Head(s)>> \o ReplaceFirst(Tail(s), accented, ascii)

\* text.replace(new RegExp(accented, "g"), ascii) for a one-character key.
RECURSIVE ReplaceAll(_, _, _)
ReplaceAll(s, accented, ascii) ==
    IF s = <<>> THEN <<>>
    ELSE (IF Head(s) = accented THEN ascii ELSE <<Head(s)>>)
            \o ReplaceAll(Tail(s), accented, ascii)

\* The iterations of the loop of toAscii for the entries from..to, in
\* order: those of the first half, then those of the second.  No
\* replacement changes the empty string.
RECURSIVE ToAsciiOver(_, _, _)
ToAsciiOver(s, from, to) ==
    IF s = <<>> \/ from > to THEN s
    ELSE IF from = to THEN ReplaceAll(s, charMap[from][1], charMap[from][2])
    ELSE ToAsciiOver(ToAsciiOver(s, from, (from + to) \div 2),
                     (from + to) \div 2 + 1, to)

toAscii(s) == IF s = <<>> THEN s ELSE ToAsciiOver(s, 1, Len(charMap))

\* The longest string drawn from AsciiSample.
MaxTextLen == 3

\* Characters the strings are drawn from: keys with replacements of one,
\* two and three characters, and plain ASCII.
AsciiSample == {"a", "<", "U+00E9", "U+00E6", "U+00DF", "U+2026", "U+2264"}

AsciiInit ==
    /\ text \in StringsUpTo(AsciiSample, MaxTextLen)
                  \cup {<<c>> : c \in CharMapKeys}
    /\ result = <<>>
    /\ again = <<>>
    /\ asciiPc = "start"

Convert ==
    /\ asciiPc = "start"
    /\ result' = toAscii(text)
    /\ asciiPc' = "once"
    /\ UNCHANGED <<text, again>>
    /\ UNCHANGED <<divsVars, fragVars, runVars, spanVars, lineVars, titleVars, psalmVars, fuzzyVars, pipeVars, collectVars>>

ConvertAgain ==
    /\ asciiPc = "once"
    /\ again' = toAscii(result)
    /\ asciiPc' = "twice"
    /\ UNCHANGED <<text, result>>
    /\ UNCHANGED <<divsVars, fragVars, runVars, spanVars, lineVars, titleVars, psalmVars, fuzzyVars, pipeVars, collectVars>>

InitAscii == AsciiInit /\ DivsIdle /\ FragIdle /\ RunIdle /\ SpanIdle /\ LineIdle /\ TitleIdle /\ PsalmIdle /\ FuzzyIdle /\ PipeIdle /\ CollectIdle

NextAscii ==
    \/ Convert
    \/ ConvertAgain

SpecAscii == InitAscii /\ [][NextAscii]_vars

\* C10: the result of toAscii holds no key of charMap, and toAscii of the
\* result is the result.
C10_NoKeyLeftAndIdempotent ==
    /\ asciiPc \in {"once", "twice"}
         => \A i \in 1..Len(result) : result[i] \notin CharMapKeys
    /\ asciiPc = "twice" => again = result

\* C10 witness: a string with the same key twice and another key has been
\* converted twice, and the conversion changed it.
C10_Witness ==
    /\ asciiPc = "twice"
    /\ \E i, j, k \in 1..Len(text) :
          /\ i < j
          /\ text[i] = text[j]
          /\ text[i] \in CharMapKeys
          /\ text[k] \in CharMapKeys \ {text[i]}
    /\ result # text
    /\ Len(result) > Len(text)

(***************************************************************************)
(* fontClass, fontSpans                                                    *)
(***************************************************************************)

\* 'text-sm'
TextSm ==
    <<"t", "e", "x", "t", "-", "s", "m">>

\* 'text-lg'
TextLg ==
    <<"t", "e", "x", "t", "-", "l", "g">>

\* 'text-xl'
TextXl ==
    <<"t", "e", "x", "t", "-", "x", "l">>

\* "font-size"
FontSizeProperty ==
    <<"f", "o", "n", "t", "-", "s", "i", "z", "e">>

\* "color"
ColorProperty ==
    <<"c", "o", "l", "o", "r">>

\* style values: a font size of the table
DeclSizeOne ==
    <<"f", "o", "n", "t", "-", "s", "i", "z", "e", ":", "1">>

\* a font size of the table and a colour, with spaces
DeclSizeEmAndColor ==
    <<"f", "o", "n", "t", "-", "s", "i", "z", "e", ":", " ", "1", ".", "2",
      "5", "e", "m", ";", " ", "c", "o", "l", "o", "r", ":", " ", "r", "e",
      "d">>

\* a font size the table lacks
DeclSizeUnknown ==
    <<"f", "o", "n", "t", "-", "s", "i", "z", "e", ":", "+", "3">>

\* a declaration without a value
DeclNoValue ==
    <<"f", "o", "n", "t", "-", "s", "i", "z", "e">>

\* a declaration without a property
DeclNoProperty ==
    <<":", "r", "e", "d">>

\* a colour and a closing semicolon
DeclColorSemicolon ==
    <<"c", "o", "l", "o", "r", ":", "r", "e", "d", ";">>

\* a property other than font-size and color
DeclUnknownProperty ==
    <<"m", "a", "r", "g", "i", "n", ":", "0">>

\* plain attribute values: sizes of the table
PlainOne ==
    <<"1">>

\* (a size of the table)
PlainPlusTwo ==
    <<"+", "2">>

\* a size the table lacks, no letter in it
PlainThree ==
    <<"3">>

\* a size the table lacks, with letters
PlainTwoEm ==
    <<"2", "e", "m">>

\* a colour name
PlainRed ==
    <<"R", "e", "d">>

\* The values fontClass maps.
FontSizes ==
    {<<"1">>, <<"8", "2", "%">>, <<"-", "1">>, <<"+", "1">>,
     <<"1", ".", "2", "5", "e", "m">>, <<"+", "2">>}

\* What a step of fontSpans yields: the classes it pushes, or a throw.
Pushes(cs) == [thrown |-> FALSE, classes |-> cs]
Throws == [thrown |-> TRUE, classes |-> <<>>]

fontClass(v) ==
    IF v \in {<<"1">>, <<"8", "2", "%">>} THEN Pushes(<<TextSm>>)
    ELSE IF v = <<"-", "1">> THEN Pushes(<<TextSm>>)
    ELSE IF v \in {<<"+", "1">>, <<"1", ".", "2", "5", "e", "m">>}
    THEN Pushes(<<TextLg>>)
    ELSE IF v = <<"+", "2">> THEN Pushes(<<TextXl>>)
    ELSE Throws

\* s.split(c) for a one-character separator c.
RECURSIVE SplitAt(_, _)
SplitAt(s, c) ==
    LET j == FirstOf({k \in 1..Len(s) : s[k] = c})
    IN  IF j = 0 THEN <<s>>
        ELSE <<SubSeq(s, 1, j - 1)>> \o SplitAt(SubSeq(s, j + 1, Len(s)), c)

\* s.split(/\s*;\s*/): the pieces between the semicolons, without the white
\* space that touches a semicolon.
SplitStyle(s) ==
    LET pieces == SplitAt(s, ";")
    IN  [k \in 1..Len(pieces) |->
           LET x == pieces[k]
               from == IF k = 1 THEN 1 ELSE SkipSpace(x, 1)
               to == IF k = Len(pieces) THEN Len(x)
                     ELSE SkipSpaceBack(x, Len(x))
           IN  SubSeq(x, from, to)]

\* The callback of fontSpans on one piece x of a style value.
StyleDeclaration(x) ==
    IF Trim(x) = <<>> THEN Pushes(<<>>)
    ELSE LET parts == SplitAt(x, ":")
             property == parts[1]
         IN  IF property = <<>> \/ Len(parts) < 2 \/ parts[2] = <<>>
             THEN Throws
             ELSE IF property = FontSizeProperty THEN fontClass(Trim(parts[2]))
             ELSE IF property = ColorProperty THEN Pushes(<<Trim(parts[2])>>)
             ELSE Throws

\* /[a-z]+/i.test(value)
HasLetter(value) ==
    \E k \in 1..Len(value) : value[k] \in UpperAZ \cup LowerAZ

\* The else branch of fontSpans: an attribute other than style.
PlainAttribute(value) ==
    IF HasLetter(value) THEN Pushes(<<ToLowerCase(value)>>)
    ELSE fontClass(value)

\* classesToAdd after the pushes of the steps, in order.
RECURSIVE Flatten(_)
Flatten(ss) == IF ss = <<>> THEN <<>> ELSE Head(ss) \o Flatten(Tail(ss))

\* The body of the loop of fontSpans for one attribute.
SpanAttribute(attr) ==
    IF attr.name = "style"
    THEN LET pieces == SplitStyle(attr.value)
             steps == [k \in 1..Len(pieces) |-> StyleDeclaration(pieces[k])]
         IN  IF \E k \in 1..Len(steps) : steps[k].thrown THEN Throws
             ELSE Pushes(Flatten([k \in 1..Len(steps) |-> steps[k].classes]))
    ELSE PlainAttribute(attr.value)

\* fontSpans on one span with the attributes attrs.
fontSpans(attrs) ==
    LET steps == [k \in 1..Len(attrs) |-> SpanAttribute(attrs[k])]
    IN  IF \E k \in 1..Len(steps) : steps[k].thrown THEN Throws
        ELSE Pushes(Flatten([k \in 1..Len(steps) |-> steps[k].classes]))

\* The most attributes of a span.
MaxAttrs == 2

AttrNames == {"style", "size", "class"}

AttrValues ==
    {DeclSizeOne, DeclSizeEmAndColor, DeclSizeUnknown, DeclNoValue,
     DeclNoProperty, DeclColorSemicolon, DeclUnknownProperty, <<>>,
     PlainOne, PlainPlusTwo, PlainThree, PlainTwoEm, PlainRed}

\* The attribute lists of a span: no name twice.
Spans ==
    {attrs \in {<<>>} \cup SeqUpTo([name : AttrNames, value : AttrValues],
                                   MaxAttrs) :
        \A j, k \in 1..Len(attrs) : j # k => attrs[j].name # attrs[k].name}

SpanInit ==
    /\ span \in Spans
    /\ classes = <<>>
    /\ fileWritten = FALSE
    /\ spanPc = "start"

\* fontSpans returns: cleanHtml goes on to the end and prepareHoras writes
\* the document of the date.
FontSpansReturns ==
    /\ spanPc = "start"
    /\ ~fontSpans(span).thrown
    /\ classes' = fontSpans(span).classes
    /\ fileWritten' = TRUE
    /\ spanPc' = "written"
    /\ UNCHANGED span
    /\ UNCHANGED <<divsVars, fragVars, runVars, asciiVars, lineVars, titleVars, psalmVars, fuzzyVars, pipeVars, collectVars>>

\* fontSpans throws: nothing catches before make(), which reports the error
\* and exits; prepareHoras has not reached its writeFile.
FontSpansThrows ==
    /\ spanPc = "start"
    /\ fontSpans(span).thrown
    /\ spanPc' = "aborted"
    /\ UNCHANGED <<span, classes, fileWritten>>
    /\ UNCHANGED <<divsVars, fragVars, runVars, asciiVars, lineVars, titleVars, psalmVars, fuzzyVars, pipeVars, collectVars>>

InitSpan == SpanInit /\ DivsIdle /\ FragIdle /\ RunIdle /\ AsciiIdle /\ LineIdle /\ TitleIdle /\ PsalmIdle /\ FuzzyIdle /\ PipeIdle /\ CollectIdle

NextSpan ==
    \/ FontSpansReturns
    \/ FontSpansThrows

SpecSpan == InitSpan /\ [][NextSpan]_vars

\* The declarations of a style value that are not blank.
Declarations(value) ==
    {x \in Range(SplitStyle(value)) : Trim(x) # <<>>}

\* A declaration without a property or without a value.
Unparsable(x) ==
    \/ Len(SplitAt(x, ":")) < 2
    \/ SplitAt(x, ":")[1] = <<>>
    \/ SplitAt(x, ":")[2] = <<>>

\* The font-size values a span carries, in a style declaration or in the
\* attribute size.
FontSizeValues(attrs) ==
    {Trim(SplitAt(x, ":")[2]) :
        x \in {y \in UNION {Declarations(attrs[k].value) :
                              k \in {j \in 1..Len(attrs) : attrs[j].name = "style"}} :
                 ~Unparsable(y) /\ SplitAt(y, ":")[1] = FontSizeProperty}}
    \cup {attrs[k].value : k \in {j \in 1..Len(attrs) : attrs[j].name = "size"}}

\* C11: a span with a style declaration that cannot be parsed, or with a
\* font-size value the table lacks, in a style declaration or in the
\* attribute size, aborts the run: no document is written for the date and
\* the value is not among the classes.
C11_MalformedAborts ==
    (/\ spanPc \in {"written", "aborted"}
     /\ \/ \E k \in 1..Len(span) :
              /\ span[k].name = "style"
              /\ \E x \in Declarations(span[k].value) : Unparsable(x)
        \/ \E v \in FontSizeValues(span) : v \notin FontSizes)
    => (spanPc = "aborted" /\ ~fileWritten /\ classes = <<>>)

(***************************************************************************)
(* Properties of splitSentences(), checked under SpecFrag.                 *)
(***************************************************************************)

\* C12: for a line of plain text whose last sentence ends with a period,
\* every unit splitSentences returns ends with a period, the last one too.
C12_UnitsKeepPeriod ==
    (/\ fragPc = "split"
     /\ EndsWith(Trim(fragment), <<".">>)
     /\ \A i \in 1..Len(fragment) : fragment[i] \notin {"<", ">"})
    => \A k \in 1..Len(fragSentences) : EndsWith(fragSentences[k], <<".">>)

(***************************************************************************)
(* One line of a cell through cleanHtml: classified by divs() as it        *)
(* stands, rewritten by fontSpans and verseNumbers, classified again.      *)
(***************************************************************************)

\* the serialization of a span element: <span
SpanOpen ==
    <<"<", "s", "p", "a", "n">>

\* </span>
SpanClose ==
    <<"<", "/", "s", "p", "a", "n", ">">>

\* =" between the name and the value of an attribute
AttrEquals ==
    <<"=", "\"">>

\* 'v-numbers'
VNumbersClass ==
    <<"v", "-", "n", "u", "m", "b", "e", "r", "s">>

\* 'red'
RedClass ==
    <<"r", "e", "d">>

\* texts of a span: chapter and verse
ChapterVerse ==
    <<"1", "2", ":", "3">>

\* a verse number
VerseDigit ==
    <<"3">>

\* a versicle mark
VersicleMark ==
    <<"V", ".">>

\* texts after the span: two sentences
ProseRest ==
    <<" ", "B", "e", "a", "t", "u", "s", " ", "v", "i", "r", ".", " ", "E",
      "t", " ", "i", "t", "a", ".">>

\* a psalm verse with its asterisk
StarRest ==
    <<" ", "D", "i", "x", "i", "t", " ", "*", " ", "s", "e", "d", "e", ".">>

\* one word
WordRest ==
    <<"A", "m", "e", "n", ".">>

\* The characters of an attribute name.
NameChars(name) ==
    CASE name = "style" -> <<"s", "t", "y", "l", "e">>
      [] name = "size" -> <<"s", "i", "z", "e">>
      [] name = "color" -> <<"c", "o", "l", "o", "r">>
      [] name = "class" -> <<"c", "l", "a", "s", "s">>

\* innerHTML of a line that is a span with the attributes attrs and the
\* text inner, followed by the text rest; of rest alone without a span.
RECURSIVE AttrsHtml(_)
AttrsHtml(attrs) ==
    IF attrs = <<>> THEN <<>>
    ELSE <<" ">> \o NameChars(Head(attrs).name) \o AttrEquals
           \o Head(attrs).value \o <<"\"">> \o AttrsHtml(Tail(attrs))

LineHtml(l) ==
    IF l.hasSpan
    THEN SpanOpen \o AttrsHtml(l.attrs) \o <<">">> \o l.inner \o SpanClose
           \o l.rest
    ELSE l.rest

\* addClass for every class of cs in turn, on an element without a class
\* attribute: the class tokens, none twice.
AddClasses(cs) == Unique(cs)

\* classes.join(' ')
RECURSIVE JoinClasses(_)
JoinClasses(cs) ==
    IF cs = <<>> THEN <<>>
    ELSE IF Len(cs) = 1 THEN cs[1]
    ELSE cs[1] \o <<" ">> \o JoinClasses(Tail(cs))

\* verseNumbers on an element with the class tokens cs and the text inner.
verseNumbers(cs, inner) ==
    IF /\ TextSm \in Range(cs)
       /\ RedClass \in Range(cs)
       /\ inner # <<>>
       /\ inner[1] \in Digit
    THEN AddClasses(cs \o <<VNumbersClass>>)
    ELSE cs

\* The line after fontSpans and verseNumbers; the other steps of cleanHtml
\* after divs() leave the markup of a line as it is.
CleanedLine(l) ==
    IF l.hasSpan
    THEN LET cs == verseNumbers(AddClasses(fontSpans(l.attrs).classes), l.inner)
         IN  [hasSpan |-> TRUE,
              attrs |-> IF cs = <<>> THEN <<>>
                        ELSE <<[name |-> "class", value |-> JoinClasses(cs)]>>,
              inner |-> l.inner,
              rest |-> l.rest]
    ELSE l

\* The attribute lists of the spans of the lines.
LineAttrs ==
    {<<[name |-> "size", value |-> PlainOne],
       [name |-> "color", value |-> PlainRed]>>,
     <<[name |-> "color", value |-> PlainRed],
       [name |-> "size", value |-> PlainOne]>>,
     <<[name |-> "color", value |-> PlainRed]>>,
     <<[name |-> "size", value |-> PlainPlusTwo],
       [name |-> "color", value |-> PlainRed]>>,
     <<[name |-> "size", value |-> PlainThree]>>,
     <<>>}

LineInners == {ChapterVerse, VerseDigit, VersicleMark, <<>>}

LineRests == {ProseRest, StarRest, WordRest, <<>>}

Lines ==
    [hasSpan : {TRUE}, attrs : LineAttrs, inner : LineInners, rest : LineRests]
    \cup [hasSpan : {FALSE}, attrs : {<<>>}, inner : {<<>>}, rest : LineRests]

LineInit ==
    /\ rawLine \in Lines
    /\ cleanLine = <<>>
    /\ rawLabel = FALSE
    /\ cleanLabel = FALSE
    /\ linePc = "start"

\* divs(): isPsalmContent on the line as it stands.
ClassifyRaw ==
    /\ linePc = "start"
    /\ rawLabel' = isPsalmContent(LineHtml(rawLine))
    /\ linePc' = "classified"
    /\ UNCHANGED <<rawLine, cleanLine, cleanLabel>>
    /\ UNCHANGED <<divsVars, fragVars, runVars, asciiVars, spanVars, titleVars, psalmVars, fuzzyVars, pipeVars, collectVars>>

\* The steps of cleanHtml after divs(), fontSpans returning.
CleanLine ==
    /\ linePc = "classified"
    /\ ~fontSpans(rawLine.attrs).thrown
    /\ cleanLine' = LineHtml(CleanedLine(rawLine))
    /\ linePc' = "cleaned"
    /\ UNCHANGED <<rawLine, rawLabel, cleanLabel>>
    /\ UNCHANGED <<divsVars, fragVars, runVars, asciiVars, spanVars, titleVars, psalmVars, fuzzyVars, pipeVars, collectVars>>

\* fontSpans throws: the run ends.
CleanLineThrows ==
    /\ linePc = "classified"
    /\ fontSpans(rawLine.attrs).thrown
    /\ linePc' = "aborted"
    /\ UNCHANGED <<rawLine, cleanLine, rawLabel, cleanLabel>>
    /\ UNCHANGED <<divsVars, fragVars, runVars, asciiVars, spanVars, titleVars, psalmVars, fuzzyVars, pipeVars, collectVars>>

\* isPsalmContent on the line as cleanHtml leaves it.
ClassifyClean ==
    /\ linePc = "cleaned"
    /\ cleanLabel' = isPsalmContent(cleanLine)
    /\ linePc' = "reclassified"
    /\ UNCHANGED <<rawLine, cleanLine, rawLabel>>
    /\ UNCHANGED <<divsVars, fragVars, runVars, asciiVars, spanVars, titleVars, psalmVars, fuzzyVars, pipeVars, collectVars>>

InitLine == LineInit /\ DivsIdle /\ FragIdle /\ RunIdle /\ AsciiIdle /\ SpanIdle /\ TitleIdle /\ PsalmIdle /\ FuzzyIdle /\ PipeIdle /\ CollectIdle

NextLine ==
    \/ ClassifyRaw
    \/ CleanLine
    \/ CleanLineThrows
    \/ ClassifyClean

SpecLine == InitLine /\ [][NextLine]_vars

\* C13: isPsalmContent answers the same on a line as it stands when divs()
\* classifies it and on the line as the pipeline leaves it.
C13_SameLabelAfterPipeline ==
    linePc = "reclassified" => cleanLabel = rawLabel

(***************************************************************************)
(* More properties of divs(), checked under Spec.                          *)
(***************************************************************************)

\* C14: every row divs() emits has one cell when lang1 = lang2 and two
\* cells when they differ, on the verse, the nosplit and the split path.
C14_CellsPerRow ==
    \A r \in 1..Len(newTable) :
        /\ newTable[r].path \in {"verse", "nosplit", "split"}
        /\ Len(newTable[r].cells) = IF lang1 = lang2 THEN 1 ELSE 2

\* C14 witness: one language, a row of two cells with a line in each, and
\* both a verse row and a split row emitted.
C14_Witness ==
    /\ pc = "done"
    /\ lang1 = lang2
    /\ Len(content1) >= 1
    /\ Len(content2) >= 1
    /\ \E r \in 1..Len(newTable) : newTable[r].path = "verse"
    /\ \E r \in 1..Len(newTable) : newTable[r].path = "split"

(***************************************************************************)
(* More properties of findBreakPoints(), checked under SpecFrag.           *)
(***************************************************************************)

\* C15: the break points findBreakPoints returns are in strictly ascending
\* order of position; no two share a position.
C15_StrictlyAscending ==
    fragPc = "scanned"
    => \A j, k \in 1..Len(breakPoints) :
          j < k => breakPoints[j].position < breakPoints[k].position

\* C15 witness: a fragment with a tag scanned, two break points or more.
C15_Witness ==
    /\ fragPc = "scanned"
    /\ Len(breakPoints) >= 2
    /\ fragment # ReplaceTags(fragment, <<>>)

(***************************************************************************)
(* prepareHoras: the file of the date and its title                        *)
(***************************************************************************)

\* <br>
BrTag ==
    <<"<", "b", "r", ">">>

\* date keys: month-day-year
DateOne ==
    <<"0", "1", "-", "1", "5", "-", "2", "0", "2", "5">>

\* (a date key)
DateTwo ==
    <<"1", "2", "-", "2", "5", "-", "2", "0", "2", "5">>

\* inner markup of a first child: a title
TitleHtml ==
    <<"A", "d", " ", "L", "a", "u", "d", "e", "s">>

\* a title, a <br> and more after it
TitleBrHtml ==
    <<" ", "A", "d", " ", "L", "a", "u", "d", "e", "s", "<", "b", "r", ">",
      "D", "i", "e", " ", "1", "5">>

\* a <br> with a line break after it
TitleBrLinesHtml ==
    <<"A", "d", " ", "L", "a", "u", "d", "e", "s", "<", "b", "r", ">", "D",
      "i", "e", " ", "1", "5", "\n", " ", "I", "a", "n", "u", "a", "r", "i",
      "i">>

\* the text of a first paragraph
ParagraphText ==
    <<"A", "d", " ", "L", "a", "u", "d", "e", "s", " ", "D", "i", "e", " ",
      "1", "5">>

\* title.replace(/<br>.*/, ""): the first <br> and what follows it up to the
\* end of its line are removed.
WithoutBr(s) ==
    LET j == FirstOf({k \in 1..Len(s) : HasAt(s, k, BrTag)})
        e == FirstOf({k \in (j + 1)..Len(s) : s[k] = "\n"})
    IN  IF j = 0 THEN s
        ELSE IF e = 0 THEN SubSeq(s, 1, j - 1)
        ELSE SubSeq(s, 1, j - 1) \o SubSeq(s, e, Len(s))

\* The title prepareHoras returns when there is none to extract: no
\* label at all.
NoTitle(date) == <<>>

\* The title prepareHoras returns when there is none to extract.
FallbackTitle(date) == date

\* The try block of prepareHoras on the processed document doc: p says
\* whether querySelector('p') finds a paragraph, child what its firstChild
\* is, inner the innerHTML of that child when it is an element and text the
\* textContent of the paragraph.
ExtractedTitle(doc, date) ==
    IF doc.p /\ doc.child # "none"
    THEN Trim(WithoutBr(IF doc.child = "element" /\ doc.inner # <<>>
                        THEN doc.inner ELSE doc.text))
    ELSE FallbackTitle(date)

\* The processed documents of the model.
TitleDocs ==
    {[p |-> FALSE, child |-> "none", inner |-> <<>>, text |-> <<>>],
     [p |-> TRUE, child |-> "none", inner |-> <<>>, text |-> <<>>]}
    \cup [p : {TRUE}, child : {"text"}, inner : {<<>>},
          text : {ParagraphText, TitleBrHtml, <<" ">>}]
    \cup [p : {TRUE}, child : {"element"},
          inner : {TitleHtml, TitleBrHtml, TitleBrLinesHtml, <<>>},
          text : {ParagraphText, TitleHtml, <<>>}]

DateKeys == {DateOne, DateTwo}

TitleInit ==
    /\ titleDoc \in TitleDocs
    /\ dateKey \in DateKeys
    /\ title = <<>>
    /\ raised = FALSE
    /\ titlePc = "start"

\* fs.writeFile succeeds.
WriteHoras ==
    /\ titlePc = "start"
    /\ titlePc' = "written"
    /\ UNCHANGED <<titleDoc, dateKey, title, raised>>
    /\ UNCHANGED <<divsVars, fragVars, runVars, asciiVars, spanVars, lineVars, psalmVars, fuzzyVars, pipeVars, collectVars>>

\* fs.ensureDir or fs.writeFile raises: process.exit(1).
WriteHorasFails ==
    /\ titlePc = "start"
    /\ titlePc' = "exited"
    /\ UNCHANGED <<titleDoc, dateKey, title, raised>>
    /\ UNCHANGED <<divsVars, fragVars, runVars, asciiVars, spanVars, lineVars, psalmVars, fuzzyVars, pipeVars, collectVars>>

\* The try block runs to one of its return statements.
ExtractTitle ==
    /\ titlePc = "written"
    /\ title' = ExtractedTitle(titleDoc, dateKey)
    /\ titlePc' = "returned"
    /\ UNCHANGED <<titleDoc, dateKey, raised>>
    /\ UNCHANGED <<divsVars, fragVars, runVars, asciiVars, spanVars, lineVars, psalmVars, fuzzyVars, pipeVars, collectVars>>

\* Something in the try block raises: the catch block returns the date.
TitleLookupRaises ==
    /\ titlePc = "written"
    /\ raised' = TRUE
    /\ title' = FallbackTitle(dateKey)
    /\ titlePc' = "returned"
    /\ UNCHANGED <<titleDoc, dateKey>>
    /\ UNCHANGED <<divsVars, fragVars, runVars, asciiVars, spanVars, lineVars, psalmVars, fuzzyVars, pipeVars, collectVars>>

InitTitle == TitleInit /\ DivsIdle /\ FragIdle /\ RunIdle /\ AsciiIdle /\ SpanIdle /\ LineIdle /\ PsalmIdle /\ FuzzyIdle /\ PipeIdle /\ CollectIdle

NextTitle ==
    \/ WriteHoras
    \/ WriteHorasFails
    \/ ExtractTitle
    \/ TitleLookupRaises

SpecTitle == InitTitle /\ [][NextTitle]_vars

\* C16: once the file is written prepareHoras returns, and when the
\* document has no first paragraph, or the paragraph has no child, or the
\* lookup raised, what it returns is the date key.
C16_TitleFallsBackToDate ==
    /\ titlePc = "exited" => title = <<>> /\ ~raised
    /\ (/\ titlePc = "returned"
        /\ (~titleDoc.p \/ titleDoc.child = "none" \/ raised))
       => title = dateKey

\* C16 witness: a document whose first paragraph has no child has been
\* given its date as title.
C16_Witness ==
    /\ titlePc = "returned"
    /\ titleDoc.p
    /\ titleDoc.child = "none"
    /\ ~raised
    /\ title = dateKey

(***************************************************************************)
(* isPsalmContent on lines of every kind                                   *)
(***************************************************************************)

\* opening tag of a small red span
SmallRedOpen ==
    <<"<", "s", "p", "a", "n", " ", "c", "l", "a", "s", "s", "=", "\"",
      "t", "e", "x", "t", "-", "s", "m", " ", "r", "e", "d", "\"", ">">>

\* opening tag of a verse-number span
VNumbersOpen ==
    <<"<", "s", "p", "a", "n", " ", "c", "l", "a", "s", "s", "=", "\"",
      "t", "e", "x", "t", "-", "s", "m", " ", "r", "e", "d", " ", "v", "-",
      "n", "u", "m", "b", "e", "r", "s", "\"", ">">>

\* opening tag of an italic element
ItalicOpen ==
    <<"<", "i", ">">>

\* texts at the start of a line: chapter and verse
LeadVerse ==
    <<"1", "2", ":", "3">>

\* (a number)
LeadNumber ==
    <<"1", "2">>

\* (a versicle mark)
LeadVersicle ==
    <<"V", ".">>

\* closing tag and a space
CloseSpace ==
    <<"<", "/", "s", "p", "a", "n", ">", " ">>

\* what follows on the line: prose
RestProse ==
    <<"B", "e", "a", "t", "u", "s", " ", "v", "i", "r", ".">>

\* (an asterisk)
RestStar ==
    <<"D", "i", "x", "i", "t", " ", "*", " ", "s", "e", "d", "e", ".">>

\* (a dagger)
RestDagger ==
    <<"D", "i", "x", "i", "t", " ", "U+2020", " ", "s", "e", "d", "e", ".">>

\* (a double dagger)
RestDoubleDagger ==
    <<"U+2021">>

\* (Ant. in lower case)
RestAntDot ==
    <<"a", "n", "t", ".", " ", "2">>

\* (Ant without its period)
RestAnt ==
    <<"A", "n", "t", " ", "2">>

\* (Antiphon in upper case)
RestAntiphon ==
    <<"A", "N", "T", "I", "P", "H", "O", "N">>

\* (Psalm, white space, a number)
RestPsalmNumber ==
    <<"p", "s", "a", "l", "m", " ", "	", "1", "2">>

\* (Psalm without a number)
RestPsalmWord ==
    <<"P", "s", "a", "l", "m", " ", "x">>

\* (the doxology in Latin)
RestGloria ==
    <<"G", "L", "U+00D3", "R", "I", "A", " ", "P", "A", "T", "R", "I">>

\* (the doxology in English)
RestGloryBe ==
    <<"g", "l", "o", "r", "y", " ", "b", "e", " ", "t", "o", " ", "t", "h",
      "e", " ", "f", "a", "t", "h", "e", "r">>

\* (white space only)
RestBlank ==
    <<" ", " ">>

PsalmOpens == {<<>>, SmallRedOpen, VNumbersOpen, ItalicOpen}

PsalmLeads == {<<>>, LeadVerse, LeadNumber, LeadVersicle}

PsalmRests ==
    {<<>>, RestProse, RestStar, RestDagger, RestDoubleDagger, RestAntDot,
     RestAnt, RestAntiphon, RestPsalmNumber, RestPsalmWord, RestGloria,
     RestGloryBe, RestBlank}

\* A line: an opening tag (or none), a text, the closing tag when there is an
\* opening one, and the rest of the line.
PsalmLine(open, lead, rest) ==
    IF open = <<>> THEN lead \o (IF lead = <<>> THEN <<>> ELSE <<" ">>) \o rest
    ELSE open \o lead \o CloseSpace \o rest

PsalmLines ==
    {PsalmLine(o, l, r) : o \in PsalmOpens, l \in PsalmLeads, r \in PsalmRests}

PsalmInit ==
    /\ psalmLine \in PsalmLines
    /\ psalmLabel = FALSE
    /\ psalmPc = "start"

\* isPsalmContent(line): the line is read and the answer returned.
ClassifyLine ==
    /\ psalmPc = "start"
    /\ psalmLabel' = isPsalmContent(psalmLine)
    /\ psalmPc' = "classified"
    /\ UNCHANGED psalmLine
    /\ UNCHANGED <<divsVars, fragVars, runVars, asciiVars, spanVars, lineVars, titleVars, fuzzyVars, pipeVars, collectVars>>

InitPsalm == PsalmInit /\ DivsIdle /\ FragIdle /\ RunIdle /\ AsciiIdle /\ SpanIdle /\ LineIdle /\ TitleIdle /\ FuzzyIdle /\ PipeIdle /\ CollectIdle

NextPsalm == ClassifyLine

SpecPsalm == InitPsalm /\ [][NextPsalm]_vars

\* The text of a line: every tag replaced by a space, then trimmed.
C17_Text == Trim(ReplaceTags(psalmLine, <<" ">>))

\* The six rules on the line of the state: digits then white space at the
\* start of the text; the verse-number marker in the markup; an asterisk or
\* dagger in the text; Ant. or Antiphon, Psalm and a number, or the doxology
\* in the text, in any case.
C17_ListedRule ==
    LET t == C17_Text
        low == ToLowerCase(t)
    IN  \/ \E n \in 1..(Len(t) - 1) :
               /\ \A k \in 1..n : t[k] \in Digit
               /\ t[n + 1] \in WhiteSpace
        \/ \E i \in 1..Len(psalmLine) : HasAt(psalmLine, i, VNumbersMarker)
        \/ \E i \in 1..Len(t) : t[i] = "*" \/ t[i] = "U+2020" \/ t[i] = "U+2021"
        \/ \E i \in 1..Len(t) :
               HasAt(low, i, AntDotWord) \/ HasAt(low, i, AntiphonWord)
        \/ \E i \in 1..Len(t) : \E j \in (i + Len(PsalmWord) + 1)..Len(t) :
               /\ HasAt(low, i, PsalmWord)
               /\ \A k \in (i + Len(PsalmWord))..(j - 1) : t[k] \in WhiteSpace
               /\ t[j] \in Digit
        \/ \E i \in 1..Len(t) :
               HasAt(low, i, GloriaPatriWord) \/ HasAt(low, i, GloryBeWord)

\* The rule of the code that is not among the six: 'text-sm red' in the
\* markup and a digit at the start of the text.
C17_SmallRedRule ==
    /\ \E i \in 1..Len(psalmLine) : HasAt(psalmLine, i, TextSmRedMarker)
    /\ C17_Text # <<>>
    /\ Head(C17_Text) \in Digit

\* C17 as stated: isPsalmContent answers Verse exactly when one of the six
\* rules matches, and leaves the line as it was.
C17_VerseIffListedRule ==
    psalmPc = "classified" => (psalmLabel <=> C17_ListedRule)

\* C17: isPsalmContent answers Verse exactly when one of the six rules
\* matches or the markup contains 'text-sm red' and the text starts with a
\* digit; it answers Prose for every other line, the empty line included.
C17_VerseIffAnyRule ==
    psalmPc = "classified"
        => /\ psalmLabel <=> (C17_ListedRule \/ C17_SmallRedRule)
           /\ psalmLine = <<>> => ~psalmLabel

\* C17 witness: a line has been classified as Verse by the doxology rule
\* alone, in upper case.
C17_Witness ==
    /\ psalmPc = "classified"
    /\ psalmLabel
    /\ psalmLine = RestGloria

(***************************************************************************)
(* findBreakPoints() on fragments with every punctuation mark              *)
(***************************************************************************)

\* texts before a mark: a word
BeforeWord ==
    <<"a", "a">>

\* (a single letter)
BeforeLetter ==
    <<"a">>

\* (an abbreviation)
BeforeAbbreviation ==
    <<"D", "r">>

\* (a number)
BeforeNumber ==
    <<"1", "2">>

\* (a prayer phrase ending)
BeforeAmen ==
    <<"A", "m", "e", "n">>

\* (an Our Father phrase and a space)
BeforeNomen ==
    <<"n", "o", "m", "e", "n", " ">>

\* texts after a mark: a space and a capital letter
AfterCapital ==
    <<" ", "B", "e", "a", "t", "u", "s">>

\* (a capital letter at once)
AfterCapitalNoSpace ==
    <<"B", "e", "a", "t", "u", "s">>

\* (a conjunction)
AfterConjunction ==
    <<" ", "e", "t">>

\* (a prayer word)
AfterPrayer ==
    <<" ", " ", "G", "l", "o", "r", "i", "a">>

\* (a lower-case word)
AfterLower ==
    <<" ", "b", "e", "a", "t", "u", "s">>

\* what ends a fragment: a tag and a word
TailBreak ==
    <<"<", "b", "r", ">", "A", "m", "e", "n", ".">>

\* (a comma, a semicolon and a period after a number)
TailMarks ==
    <<" ", "x", ",", " ", "y", ";", " ", "2", ".">>

\* (marks in and after a tag)
TailBold ==
    <<"<", "b", ">", "!", "<", "/", "b", ">", "?">>

MarkBefores ==
    {<<>>, BeforeWord, BeforeLetter, BeforeAbbreviation, BeforeNumber,
     BeforeAmen, BeforeNomen}

MarkAfters ==
    {<<>>, AfterCapital, AfterCapitalNoSpace, AfterConjunction, AfterPrayer,
     AfterLower}

MarkTails == {<<>>, TailBreak, TailMarks, TailBold}

\* A text, a mark, a text and an end.
MarkFragments ==
    {b \o <<m>> \o a \o t :
        b \in MarkBefores, m \in Punctuation, a \in MarkAfters, t \in MarkTails}

MarksInit ==
    /\ fragment \in MarkFragments
    /\ breakPoints = <<>>
    /\ fragSentences = <<>>
    /\ fragPc = "start"

InitMarks == MarksInit /\ DivsIdle /\ RunIdle /\ AsciiIdle /\ SpanIdle /\ LineIdle /\ TitleIdle /\ PsalmIdle /\ FuzzyIdle /\ PipeIdle /\ CollectIdle

SpecMarks == InitMarks /\ [][NextFrag]_vars

\* The 20 characters at most before the 0-based offset p of the text view
\* of the fragment, and the 20 at most after it, both in lower case as
\* findBreakPoints hands them to the two context tests.
C18_Before(p) ==
    ToLowerCase(SubSeq(TextView(fragment), IF p > 20 THEN p - 19 ELSE 1, p))

C18_After(p) ==
    ToLowerCase(SubSeq(TextView(fragment), p + 2,
                       IF Len(TextView(fragment)) < p + 21
                       THEN Len(TextView(fragment)) ELSE p + 21))

\* The mark at the 0-based offset p of the text view is followed by
\* optional white space and then an upper-case letter.
C18_CapitalFollows(p) ==
    LET t == TextView(fragment)
    IN  \E j \in (p + 2)..Len(t) :
            /\ t[j] \in UpperAZ
            /\ \A k \in (p + 2)..(j - 1) : t[k] \in WhiteSpace

\* The base score of a mark, as the table states it.
C18_Base(char) ==
    IF char = "." THEN 10
    ELSE IF char = "!" \/ char = "?" THEN 9
    ELSE IF char = ";" THEN 8
    ELSE IF char = ":" THEN 7
    ELSE 5

\* C18: a period, colon or comma followed by optional white space and an
\* upper-case letter gets the +3 adjustment; a period followed by a space
\* and a capital letter outside a poor-break context scores 13.
C18_CapitalAfterScoresThreeMore ==
    fragPc = "scanned"
    => \A k \in 1..Len(breakPoints) :
          LET bp == breakPoints[k]
              p == bp.position - 1
          IN  (bp.char \in {".", ":", ","} /\ C18_CapitalFollows(p))
              => bp.score = C18_Base(bp.char) + 3
                              - (IF isPoorBreakContext(C18_Before(p),
                                                       C18_After(p), bp.char)
                                 THEN 3 ELSE 0)


\* The score the mark at the 0-based offset p of the text view is to get:
\* its base, 3 more in a good-break context, 3 less in a poor-break one.
C19_Score(p) ==
    LET char == TextView(fragment)[p + 1]
    IN  C18_Base(char)
          + (IF isGoodBreakContext(C18_Before(p), C18_After(p), char)
             THEN 3 ELSE 0)
          - (IF isPoorBreakContext(C18_Before(p), C18_After(p), char)
             THEN 3 ELSE 0)

\* C19: every mark . ! ? ; : , of the text view whose score (base, +3 in a
\* good-break context, -3 in a poor-break one) is greater than 0 has one
\* break point, after the mark and with that score, and there is no other
\* break point.
C19_BreakPointIffPositiveScore ==
    fragPc = "scanned"
    => LET t == TextView(fragment)
       IN  /\ \A p \in 0..(Len(t) - 1) :
                 t[p + 1] \in {".", "!", "?", ";", ":", ","}
                 => /\ C19_Score(p) > 0
                        <=> \E k \in 1..Len(breakPoints) :
                                breakPoints[k].position = p + 1
                    /\ \A k \in 1..Len(breakPoints) :
                          breakPoints[k].position = p + 1
                          => /\ breakPoints[k].score = C19_Score(p)
                             /\ breakPoints[k].char = t[p + 1]
           /\ \A k \in 1..Len(breakPoints) :
                 /\ breakPoints[k].position \in 1..Len(t)
                 /\ t[breakPoints[k].position] \in {".", "!", "?", ";", ":", ","}
           /\ \A k \in 1..Len(breakPoints) : \A m \in 1..Len(breakPoints) :
                 breakPoints[k].position = breakPoints[m].position => k = m

\* C19 witness: a scanned fragment with a colon in a good-break context
\* (score 10), a period in a poor-break one (score 7) and a semicolon.
C19_Witness ==
    /\ fragPc = "scanned"
    /\ \E k \in 1..Len(breakPoints) :
          breakPoints[k].char = ":" /\ breakPoints[k].score = 10
    /\ \E k \in 1..Len(breakPoints) :
          breakPoints[k].char = "." /\ breakPoints[k].score = 7
    /\ \E k \in 1..Len(breakPoints) :
          breakPoints[k].char = ";" /\ breakPoints[k].score = 8

(***************************************************************************)
(* splitSentencesFuzzy() on one content and its target sentences           *)
(***************************************************************************)

\* contents: marks all along the text
ContentPsalm ==
    <<"B", "e", "a", "t", "u", "s", " ", "v", "i", "r", ",", " ", "q", "u",
      "i", " ", "n", "o", "n", " ", "a", "b", "i", "i", "t", ";", " ", "e",
      "t", " ", "i", "n", " ", "v", "i", "a", ".", " ", "E", "t", " ", "i",
      "n", " ", "c", "a", "t", "h", "e", "d", "r", "a", ":", " ", "n", "o",
      "n", " ", "s", "e", "d", "i", "t", ".">>

\* (marks at the start only)
ContentMarksFirst ==
    <<"A", ",", " ", "b", ",", " ", "c", ".", " ", "D", "d", "d", "d", "d",
      "d", "d", "d", "d", "d", "d", "d", "d", "d", "d", "d", "d", "d", "d",
      "d">>

\* (marks at the end only)
ContentMarksLast ==
    <<"D", "d", "d", "d", "d", "d", "d", "d", "d", "d", "d", "d", "d", "d",
      "d", "d", "d", "d", "d", "d", " ", "a", ",", " ", "b", ",", " ", "c",
      ".">>

\* (a tag before the marks)
ContentTagged ==
    <<"<", "b", ">", "P", "a", "t", "e", "r", "<", "/", "b", ">", " ", "n",
      "o", "s", "t", "e", "r", ",", " ", "q", "u", "i", " ", "e", "s", " ",
      "i", "n", " ", "c", "U+00E6", "l", "i", "s", ":", " ", "s", "a", "n",
      "c", "t", "i", "f", "i", "c", "e", "t", "u", "r", " ", "n", "o", "m",
      "e", "n", " ", "t", "u", "u", "m", ".", " ", "A", "d", "v", "e", "n",
      "i", "a", "t", ".">>

\* (four periods)
ContentPeriods ==
    <<"a", ".", " ", "b", ".", " ", "c", ".", " ", "d", ".">>

\* (one mark)
ContentOneMark ==
    <<"U", "n", "u", "s", ",", " ", "d", "u", "o">>

\* (no mark)
ContentNoMark ==
    <<"S", "i", "n", "e", " ", "s", "i", "g", "n", "i", "s">>

\* (six tags before two periods at the end)
ContentDoxology ==
    <<"<", "i", ">", "E", "t", "<", "/", "i", ">", " ", "<", "b", ">", "i",
      "n", "<", "/", "b", ">", " ", "<", "i", ">", "s", "U+00E6", "c", "u",
      "l", "a", "<", "/", "i", ">", ".", " ", "A", "m", "e", "n", ".">>

\* target sentences: a short one
TargetShort ==
    <<"E", "t", ".">>

\* (a long one)
TargetLong ==
    <<"B", "e", "a", "t", "u", "s", " ", "v", "i", "r", " ", "q", "u", "i",
      " ", "n", "o", "n", " ", "a", "b", "i", "i", "t", ".">>

\* (one with no text)
TargetTagsOnly ==
    <<"<", "b", "r", "/", ">">>

\* The most target sentences of the model.
MaxTargets == 3

FuzzyContents ==
    {ContentPsalm, ContentMarksFirst, ContentMarksLast, ContentTagged,
     ContentPeriods, ContentOneMark, ContentNoMark, ContentDoxology}

TargetSentences == {TargetShort, TargetLong, TargetTagsOnly}

FuzzyInit ==
    /\ fuzzyContent \in FuzzyContents
    /\ fuzzyTargets \in UNION {[1..n -> TargetSentences] : n \in 1..MaxTargets}
    /\ fuzzyBreakPoints = <<>>
    /\ selectedBreaks = <<>>
    /\ fuzzyPieces = <<>>
    /\ fuzzyPc = "start"

\* if (targetCount === 1) return [content]
FuzzyOneTarget ==
    /\ fuzzyPc = "start"
    /\ Len(fuzzyTargets) = 1
    /\ fuzzyPieces' = <<fuzzyContent>>
    /\ fuzzyPc' = "returned"
    /\ UNCHANGED <<fuzzyContent, fuzzyTargets, fuzzyBreakPoints, selectedBreaks>>
    /\ UNCHANGED <<divsVars, fragVars, runVars, asciiVars, spanVars, lineVars, titleVars, psalmVars, pipeVars, collectVars>>

\* const breakPoints = this.findBreakPoints(content)
FuzzyFindBreakPoints ==
    /\ fuzzyPc = "start"
    /\ Len(fuzzyTargets) > 1
    /\ fuzzyBreakPoints' = findBreakPoints(fuzzyContent)
    /\ fuzzyPc' = "found"
    /\ UNCHANGED <<fuzzyContent, fuzzyTargets, selectedBreaks, fuzzyPieces>>
    /\ UNCHANGED <<divsVars, fragVars, runVars, asciiVars, spanVars, lineVars, titleVars, psalmVars, pipeVars, collectVars>>

\* if (breakPoints.length === 0) return [content]
FuzzyNoBreakPoint ==
    /\ fuzzyPc = "found"
    /\ Len(fuzzyBreakPoints) = 0
    /\ fuzzyPieces' = <<fuzzyContent>>
    /\ fuzzyPc' = "returned"
    /\ UNCHANGED <<fuzzyContent, fuzzyTargets, fuzzyBreakPoints, selectedBreaks>>
    /\ UNCHANGED <<divsVars, fragVars, runVars, asciiVars, spanVars, lineVars, titleVars, psalmVars, pipeVars, collectVars>>

\* const selectedBreaks = this.selectBestBreaks(breakPoints, splitsNeeded,
\*                                              targetSentences, content)
FuzzySelectBreaks ==
    /\ fuzzyPc = "found"
    /\ Len(fuzzyBreakPoints) > 0
    /\ selectedBreaks' = selectBestBreaks(fuzzyBreakPoints, Len(fuzzyTargets) - 1,
                                          fuzzyTargets, fuzzyContent)
    /\ fuzzyPc' = "selected"
    /\ UNCHANGED <<fuzzyContent, fuzzyTargets, fuzzyBreakPoints, fuzzyPieces>>
    /\ UNCHANGED <<divsVars, fragVars, runVars, asciiVars, spanVars, lineVars, titleVars, psalmVars, pipeVars, collectVars>>

\* return this.splitAtBreakPoints(content, selectedBreaks)
FuzzySplit ==
    /\ fuzzyPc = "selected"
    /\ fuzzyPieces' = splitAtBreakPoints(fuzzyContent, selectedBreaks)
    /\ fuzzyPc' = "split"
    /\ UNCHANGED <<fuzzyContent, fuzzyTargets, fuzzyBreakPoints, selectedBreaks>>
    /\ UNCHANGED <<divsVars, fragVars, runVars, asciiVars, spanVars, lineVars, titleVars, psalmVars, pipeVars, collectVars>>

InitFuzzy == FuzzyInit /\ DivsIdle /\ FragIdle /\ RunIdle /\ AsciiIdle /\ SpanIdle /\ LineIdle /\ TitleIdle /\ PsalmIdle /\ PipeIdle /\ CollectIdle

NextFuzzy ==
    \/ FuzzyOneTarget
    \/ FuzzyFindBreakPoints
    \/ FuzzyNoBreakPoint
    \/ FuzzySelectBreaks
    \/ FuzzySplit

SpecFuzzy == InitFuzzy /\ [][NextFuzzy]_vars

\* The length of the content without its tags.
C20_TotalLength == Len(ReplaceTags(fuzzyContent, <<>>))

\* The length without tags of the first n target sentences together.
C20_TargetLength(n) ==
    LET len[k \in 0..n] ==
            IF k = 0 THEN 0
            ELSE len[k - 1] + Len(ReplaceTags(fuzzyTargets[k], <<>>))
    IN  len[n]

\* |position - ideal position i|, times the length of all the target
\* sentences: the ideal position i is the total length times the share of
\* the first i target sentences.
C20_Distance(b, i) ==
    LET x == fuzzyBreakPoints[b].position * C20_TargetLength(Len(fuzzyTargets))
               - C20_TotalLength * C20_TargetLength(i)
    IN  IF x < 0 THEN 0 - x ELSE x

\* Break point b lies within 30% of the total length of ideal position i.
C20_InWindow(b, i) ==
    /\ C20_TargetLength(Len(fuzzyTargets)) > 0
    /\ 10 * C20_Distance(b, i)
         <= 3 * C20_TotalLength * C20_TargetLength(Len(fuzzyTargets))

\* score + 5 * (1 - distance / maxDistance) of break point b for ideal
\* position i is no less than that of break point c.
C20_NoWorse(b, c, i) ==
    LET den == 3 * C20_TotalLength * C20_TargetLength(Len(fuzzyTargets))
    IN  (fuzzyBreakPoints[b].score + 5) * den - 50 * C20_Distance(b, i)
          >= (fuzzyBreakPoints[c].score + 5) * den - 50 * C20_Distance(c, i)

\* picks[i] is what the rule picks for ideal position i after the picks
\* before it: 0 when no break point not picked yet lies in the window, else
\* one of those with the greatest total score.
C20_RightPicks(picks) ==
    \A i \in 1..Len(picks) :
        LET cands == {b \in 1..Len(fuzzyBreakPoints) :
                         /\ \A j \in 1..(i - 1) : picks[j] # b
                         /\ C20_InWindow(b, i)}
        IN  IF cands = {} THEN picks[i] = 0
            ELSE /\ picks[i] \in cands
                 /\ \A c \in cands : C20_NoWorse(picks[i], c, i)

\* C20: with more break points than splits needed, the result of
\* selectBestBreaks is made of the picks for the ideal positions taken in
\* order, each the best break point of its window among those not picked
\* before, none when the window has none; no break point is picked twice.
C20_BestUnpickedInWindow ==
    (/\ fuzzyPc = "selected"
     /\ Len(fuzzyBreakPoints) > Len(fuzzyTargets) - 1
     /\ Len(fuzzyTargets) > 1)
    => \E picks \in [1..(Len(fuzzyTargets) - 1) -> 0..Len(fuzzyBreakPoints)] :
          /\ C20_RightPicks(picks)
          /\ \A i \in 1..Len(picks) : \A j \in 1..Len(picks) :
                (picks[i] # 0 /\ picks[i] = picks[j]) => i = j
          /\ LET made == SelectSeq(picks, LAMBDA b : b # 0)
             IN  selectedBreaks =
                   SortNumbers([k \in 1..Len(made) |->
                                   fuzzyBreakPoints[made[k]].htmlPosition])

\* C20 witness: two splits were needed of a content with four break points;
\* one ideal position got a break point and the other, with no break point
\* in its window, got none.
C20_Witness ==
    /\ fuzzyPc = "selected"
    /\ Len(fuzzyTargets) = 3
    /\ Len(fuzzyBreakPoints) = 4
    /\ Len(selectedBreaks) = 1


(***************************************************************************)
(* More properties of selectBestBreaks(), checked under SpecFuzzy.         *)
(***************************************************************************)

\* The break points selectBestBreaks picks for the ideal positions of the
\* state, in the order of the ideal positions (those that got one).
C21_Picked ==
    LET picks == SelectedBreakIndices(fuzzyBreakPoints, Len(fuzzyTargets) - 1,
                                      fuzzyTargets, fuzzyContent)
    IN  [k \in 1..Len(picks) |-> fuzzyBreakPoints[picks[k]]]

\* C21: the break point picked for a later ideal position lies at a greater
\* position than every break point picked for an earlier one.
C21_PicksFollowSentenceOrder ==
    (/\ fuzzyPc = "selected"
     /\ Len(fuzzyBreakPoints) > Len(fuzzyTargets) - 1)
    => \A j \in 1..Len(C21_Picked) : \A k \in 1..Len(C21_Picked) :
          j < k => C21_Picked[j].position < C21_Picked[k].position


\* C22: the markup offsets selectBestBreaks returns are strictly increasing.
C22_OffsetsStrictlyIncreasing ==
    fuzzyPc = "selected"
    => \A k \in 1..(Len(selectedBreaks) - 1) :
          selectedBreaks[k] < selectedBreaks[k + 1]


(***************************************************************************)
(* Properties of splitAtBreakPoints(), checked under SpecFuzzy.            *)
(***************************************************************************)

\* The pieces from the k-th on lie in the content from index i on one after
\* the other, with nothing but white space before, between and after them.
RECURSIVE C23_PiecesCover(_, _)
C23_PiecesCover(k, i) ==
    LET j == SkipSpace(fuzzyContent, i)
    IN  IF k > Len(fuzzyPieces) THEN j > Len(fuzzyContent)
        ELSE /\ HasAt(fuzzyContent, j, fuzzyPieces[k])
             /\ C23_PiecesCover(k + 1, j + Len(fuzzyPieces[k]))

\* C23: splitAtBreakPoints returns trimmed, non-empty pieces in the order of
\* the fragment, and the fragment is these pieces with white space only
\* between them: no character is lost or duplicated.
C23_PiecesPartitionFragment ==
    fuzzyPc = "split"
    => /\ \A k \in 1..Len(fuzzyPieces) :
             /\ fuzzyPieces[k] # <<>>
             /\ Trim(fuzzyPieces[k]) = fuzzyPieces[k]
       /\ C23_PiecesCover(1, 1)

\* C23 witness: a fragment has been cut in three pieces and the white space
\* at the two cuts is gone.
C23_Witness ==
    /\ fuzzyPc = "split"
    /\ Len(selectedBreaks) = 2
    /\ Len(fuzzyPieces) = 3
    /\ Len(fuzzyPieces[1]) + Len(fuzzyPieces[2]) + Len(fuzzyPieces[3])
         = Len(fuzzyContent) - 2


(***************************************************************************)
(* More properties of divs(), checked under Spec.                          *)
(***************************************************************************)

\* The units of the reference column of pair i and of the other column: the
\* reference is the second column when the code of lang2 is 'en', else the
\* first; it is split by splitSentences and the other column by
\* splitSentencesFuzzy against its units.
C24_ReferenceUnits(i) ==
    splitSentences(IF LangCode(lang2) = "en" THEN LineAt(content2, i)
                   ELSE LineAt(content1, i))

C24_OtherUnits(i) ==
    splitSentencesFuzzy(IF LangCode(lang2) = "en" THEN LineAt(content1, i)
                        ELSE LineAt(content2, i),
                        C24_ReferenceUnits(i))

\* C24: in split mode with two languages the reference column is the second
\* when the code of lang2 is 'en' and the first otherwise, the other column
\* is aligned to its units, and the k-th row of the pair holds the k-th unit
\* of each column in that column's cell (nothing where there is none).
C24_ReferenceColumn ==
    (~nosplit /\ lang1 # lang2)
    => \A i \in ProcessedPairs :
          ~PairIsPsalm(LineAt(content1, i), LineAt(content2, i))
          => LET col1 == IF LangCode(lang2) = "en" THEN C24_OtherUnits(i)
                         ELSE C24_ReferenceUnits(i)
                 col2 == IF LangCode(lang2) = "en" THEN C24_ReferenceUnits(i)
                         ELSE C24_OtherUnits(i)
             IN  /\ Len(RowsOf(i)) = Max(Len(col1), Len(col2))
                 /\ \A k \in 1..Len(RowsOf(i)) :
                       /\ RowsOf(i)[k].cells[1].html
                            = (IF k <= Len(col1) THEN col1[k] ELSE <<>>)
                       /\ RowsOf(i)[k].cells[2].html
                            = (IF k <= Len(col2) THEN col2[k] ELSE <<>>)

\* C24 witness: with English first and Latin second, a prose pair has been
\* emitted in two rows or more, the second column aligned in more than one
\* piece.
C24_Witness ==
    /\ pc = "done"
    /\ ~nosplit
    /\ lang1 = "English"
    /\ lang2 = "Latin"
    /\ \E i \in ProcessedPairs :
          /\ ~PairIsPsalm(LineAt(content1, i), LineAt(content2, i))
          /\ Len(C24_OtherUnits(i)) > 1
          /\ Len(RowsOf(i)) > 1
          /\ RowsOf(i)[2].cells[2].html = C24_OtherUnits(i)[2]


\* C25: with lang1 = lang2 a prose pair gets as many rows as the line of the
\* first cell has sentence units; the line of a second cell adds none.
C25_RowsOfSingleColumn ==
    (~nosplit /\ lang1 = lang2)
    => \A i \in ProcessedPairs :
          ~PairIsPsalm(LineAt(content1, i), LineAt(content2, i))
          => Len(RowsOf(i)) = Len(splitSentences(LineAt(content1, i)))

(***************************************************************************)
(* cleanHtml: the order of its steps                                       *)
(***************************************************************************)

\* The steps of cleanHtml with divs() run before removeTags().
PipelineDivsFirst ==
    <<"divs", "removeTags", "collectExpands", "cleanBodyTag", "fontSpans",
      "addStyle", "centerStyle", "removeH1", "addIdToHoras",
      "fixWrongInitials", "verseNumbers", "addHtmlns", "omitOmitted",
      "omitComments", "html">>

\* The calls cleanHtml makes on the document, in their order.
Pipeline ==
    <<"removeTags", "divs", "collectExpands", "cleanBodyTag", "fontSpans",
      "addStyle", "centerStyle", "removeH1", "addIdToHoras",
      "fixWrongInitials", "verseNumbers", "addHtmlns", "omitOmitted",
      "omitComments", "html">>

\* dom.removeTags(['style', 'script', 'label', 'select', 'a'])
RemovedTags == {"style", "script", "label", "select", "a"}

\* The elements a document of the model may hold.
DocTags == RemovedTags \cup {"table"}

\* The step cleanHtml is about to make.
NextStep == IF pipeStep < Len(Pipeline) THEN Pipeline[pipeStep + 1] ELSE "none"

\* What a step finds when it starts: the elements in the document and
\* whether its text has been through toAscii.
Found(step) ==
    [step |-> step, tags |-> pipeDoc.tags, rewritten |-> pipeDoc.rewritten]

PipeInit ==
    /\ pipeDoc \in [tags : SUBSET DocTags, rewritten : {FALSE},
                    malformed : BOOLEAN]
    /\ pipeAscii \in BOOLEAN
    /\ pipeStep = 0
    /\ pipeLog = <<>>
    /\ pipePc = "running"

\* removeTags: every element of the five kinds leaves the document.
PipeRemoveTags ==
    /\ pipePc = "running"
    /\ NextStep = "removeTags"
    /\ pipeDoc' = [pipeDoc EXCEPT !.tags = @ \ RemovedTags]
    /\ pipeLog' = Append(pipeLog, Found("removeTags"))
    /\ pipeStep' = pipeStep + 1
    /\ UNCHANGED <<pipeAscii, pipePc>>
    /\ UNCHANGED <<divsVars, fragVars, runVars, asciiVars, spanVars, lineVars, titleVars, psalmVars, fuzzyVars, collectVars>>

\* divs: the tables are replaced by div elements.
PipeDivs ==
    /\ pipePc = "running"
    /\ NextStep = "divs"
    /\ pipeDoc' = [pipeDoc EXCEPT !.tags = @ \ {"table"}]
    /\ pipeLog' = Append(pipeLog, Found("divs"))
    /\ pipeStep' = pipeStep + 1
    /\ UNCHANGED <<pipeAscii, pipePc>>
    /\ UNCHANGED <<divsVars, fragVars, runVars, asciiVars, spanVars, lineVars, titleVars, psalmVars, fuzzyVars, collectVars>>

\* fontSpans returns.
PipeFontSpans ==
    /\ pipePc = "running"
    /\ NextStep = "fontSpans"
    /\ ~pipeDoc.malformed
    /\ pipeLog' = Append(pipeLog, Found("fontSpans"))
    /\ pipeStep' = pipeStep + 1
    /\ UNCHANGED <<pipeDoc, pipeAscii, pipePc>>
    /\ UNCHANGED <<divsVars, fragVars, runVars, asciiVars, spanVars, lineVars, titleVars, psalmVars, fuzzyVars, collectVars>>

\* fontSpans throws on a malformed style declaration or an unknown size:
\* cleanHtml is left.
PipeFontSpansThrows ==
    /\ pipePc = "running"
    /\ NextStep = "fontSpans"
    /\ pipeDoc.malformed
    /\ pipeLog' = Append(pipeLog, Found("fontSpans"))
    /\ pipePc' = "thrown"
    /\ UNCHANGED <<pipeDoc, pipeAscii, pipeStep>>
    /\ UNCHANGED <<divsVars, fragVars, runVars, asciiVars, spanVars, lineVars, titleVars, psalmVars, fuzzyVars, collectVars>>

\* One of the other steps before html(): it adds no element of the kinds
\* above and never calls toAscii.
PipeTransform ==
    /\ pipePc = "running"
    /\ NextStep \notin {"removeTags", "divs", "fontSpans", "html", "none"}
    /\ pipeLog' = Append(pipeLog, Found(NextStep))
    /\ pipeStep' = pipeStep + 1
    /\ UNCHANGED <<pipeDoc, pipeAscii, pipePc>>
    /\ UNCHANGED <<divsVars, fragVars, runVars, asciiVars, spanVars, lineVars, titleVars, psalmVars, fuzzyVars, collectVars>>

\* html(): convertToAscii when the ascii option is set, then serialize.
PipeHtml ==
    /\ pipePc = "running"
    /\ NextStep = "html"
    /\ pipeDoc' = [pipeDoc EXCEPT !.rewritten = pipeAscii]
    /\ pipeLog' = Append(pipeLog, Found("html"))
    /\ pipeStep' = pipeStep + 1
    /\ pipePc' = IF pipeStep + 1 = Len(Pipeline) THEN "returned" ELSE pipePc
    /\ UNCHANGED pipeAscii
    /\ UNCHANGED <<divsVars, fragVars, runVars, asciiVars, spanVars, lineVars, titleVars, psalmVars, fuzzyVars, collectVars>>

InitPipe == PipeInit /\ DivsIdle /\ FragIdle /\ RunIdle /\ AsciiIdle /\ SpanIdle /\ LineIdle /\ TitleIdle /\ PsalmIdle /\ FuzzyIdle /\ CollectIdle

NextPipe ==
    \/ PipeRemoveTags
    \/ PipeDivs
    \/ PipeFontSpans
    \/ PipeFontSpansThrows
    \/ PipeTransform
    \/ PipeHtml

SpecPipe == InitPipe /\ [][NextPipe]_vars

\* C26: when divs() starts removeTags has run and no style, script, label,
\* select or hyperlink element is left; no step finds text that has been
\* through the ASCII rewrite, which html() applies as the last step.
C26_RemoveFirstAsciiLast ==
    /\ \A k \in 1..Len(pipeLog) :
          /\ pipeLog[k].step = "divs"
             => /\ pipeLog[k].tags \cap RemovedTags = {}
                /\ \E j \in 1..(k - 1) : pipeLog[j].step = "removeTags"
          /\ ~pipeLog[k].rewritten
          /\ pipeLog[k].step = "html" => k = Len(pipeLog)
    /\ (pipePc # "idle" /\ pipeDoc.rewritten)
       => pipePc = "returned" /\ pipeLog[Len(pipeLog)].step = "html"

\* C26 witness: a run with the ascii option set on a document that held a
\* hyperlink and a table has returned, its text rewritten.
C26_Witness ==
    /\ pipePc = "returned"
    /\ pipeAscii
    /\ pipeDoc.rewritten
    /\ Len(pipeLog) = 15
    /\ {"a", "table"} \subseteq pipeLog[1].tags

(***************************************************************************)
(* collectExpands() on the input elements of a document                    *)
(***************************************************************************)

\* onclick values: a call with an identifier
OnclickPater ==
    <<"l", "i", "n", "k", "i", "t", "(", "\"", "$", "P", "a", "t", "e",
      "r", " ", "n", "o", "s", "t", "e", "r", "\"", ",", " ", "0", ",",
      " ", "\"", "L", "a", "t", "i", "n", "\"", ")">>

\* (an identifier that starts with &)
OnclickAve ==
    <<"l", "i", "n", "k", "i", "t", "(", "\"", "&", "A", "v", "e", " ",
      "M", "a", "r", "i", "a", "\"", ")">>

\* (no identifier)
OnclickPlain ==
    <<"h", "i", "d", "e", "(", ")">>

\* the identifiers of the two calls
IdPater ==
    <<"$", "P", "a", "t", "e", "r", " ", "n", "o", "s", "t", "e", "r">>

\* (the other)
IdAve ==
    <<"&", "A", "v", "e", " ", "M", "a", "r", "i", "a">>

\* href of a link, before the anchor
HrefPrefix ==
    <<"e", "x", "p", "a", "n", "d", "s", ".", "h", "t", "m", "l", "#">>

\* onclick.replace(/.*\"([$&].*?)\".*/, "$1"): the text between the last
\* quote that is followed by $ or & and has a quote after it, and that next
\* quote; the value itself when there is no such quote.
ExpandSection(onclick) ==
    LET opens == {p \in 1..(Len(onclick) - 2) :
                     /\ onclick[p] = "\""
                     /\ onclick[p + 1] \in {"$", "&"}
                     /\ \E q \in (p + 2)..Len(onclick) : onclick[q] = "\""}
    IN  IF opens = {} THEN onclick
        ELSE LET p == CHOOSE x \in opens : \A y \in opens : y <= x
                 q == FirstOf({k \in (p + 2)..Len(onclick) : onclick[k] = "\""})
             IN  SubSeq(onclick, p + 1, q - 1)

\* "expands.html#" + expandSection.substring(1).replace(/ /g, "_")
ExpandHref(expandSection) ==
    HrefPrefix \o [k \in 1..(Len(expandSection) - 1) |->
                      IF expandSection[k + 1] = " " THEN "_"
                      ELSE expandSection[k + 1]]

\* The radio inputs with an onclick attribute, whatever its value.
ExpandableWithAttribute(el) == el.type = "RADIO" /\ el.hasOnclick

\* The radio inputs collectExpands acts on: css("input[type=RADIO]") with a
\* non-empty onclick value.
Expandable(el) == el.type = "RADIO" /\ el.hasOnclick /\ el.onclick # <<>>

\* The input elements of the model: radio inputs without onclick, with an
\* empty one and with the values above, and inputs of another type.
InputElements ==
    [type : {"RADIO"}, hasOnclick : {TRUE},
     onclick : {<<>>, OnclickPater, OnclickAve, OnclickPlain}]
    \cup [type : {"RADIO", "CHECKBOX"}, hasOnclick : {FALSE}, onclick : {<<>>}]
    \cup [type : {"CHECKBOX"}, hasOnclick : {TRUE}, onclick : {OnclickPater}]

CollectInit ==
    /\ inputDoc \in StringsUpTo(InputElements, MaxInputs)
    /\ idList \in {<<>>, <<IdAve>>}
    /\ docLinks = <<>>
    /\ docInputs = inputDoc
    /\ collectPc = "start"

\* collectExpands(): a link and a push for every radio input with onclick,
\* then every input element is removed.
CollectExpands ==
    /\ collectPc = "start"
    /\ LET acted == SelectSeq(inputDoc, Expandable)
       IN  /\ idList' = idList \o [k \in 1..Len(acted) |->
                                      ExpandSection(acted[k].onclick)]
           /\ docLinks' = [k \in 1..Len(acted) |->
                              ExpandHref(ExpandSection(acted[k].onclick))]
    /\ docInputs' = <<>>
    /\ collectPc' = "collected"
    /\ UNCHANGED inputDoc
    /\ UNCHANGED <<divsVars, fragVars, runVars, asciiVars, spanVars, lineVars, titleVars, psalmVars, fuzzyVars, pipeVars>>

InitCollect == CollectInit /\ DivsIdle /\ FragIdle /\ RunIdle /\ AsciiIdle /\ SpanIdle /\ LineIdle /\ TitleIdle /\ PsalmIdle /\ FuzzyIdle /\ PipeIdle

NextCollect == CollectExpands

SpecCollect == InitCollect /\ [][NextCollect]_vars

\* The radio inputs of the document with an onclick attribute, and those
\* whose onclick attribute is not empty, in document order.
C27_WithOnclick ==
    SelectSeq(inputDoc, LAMBDA el : el.type = "RADIO" /\ el.hasOnclick)

C27_WithValue ==
    SelectSeq(inputDoc,
              LAMBDA el : el.type = "RADIO" /\ el.hasOnclick /\ el.onclick # <<>>)

\* C27 as stated: one identifier and one link for each radio input that has
\* an onclick attribute, in document order, and no input element left.
C27_OnePerOnclickAttribute ==
    collectPc = "collected"
    => /\ Len(idList) \in {Len(C27_WithOnclick), Len(C27_WithOnclick) + 1}
       /\ Len(docLinks) = Len(C27_WithOnclick)
       /\ docInputs = <<>>

\* C27: one identifier appended and one link expands.html#<anchor> for each
\* radio input whose onclick attribute is not empty, in document order,
\* nothing for any other input, and no input element left.
C27_OnePerOnclickValue ==
    collectPc = "collected"
    => /\ \E before \in {<<>>, <<IdAve>>} :
             /\ Len(idList) = Len(before) + Len(C27_WithValue)
             /\ SubSeq(idList, 1, Len(before)) = before
             /\ \A k \in 1..Len(C27_WithValue) :
                   LET id == idList[Len(before) + k]
                   IN  /\ C27_WithValue[k].onclick = OnclickPater => id = IdPater
                       /\ C27_WithValue[k].onclick = OnclickAve => id = IdAve
                       /\ C27_WithValue[k].onclick = OnclickPlain
                          => id = OnclickPlain
                       /\ docLinks[k] = ExpandHref(id)
       /\ Len(docLinks) = Len(C27_WithValue)
       /\ docInputs = <<>>

\* C27 witness: a document with a radio input carrying $Pater noster and a
\* checkbox has been through collectExpands with a list that held an
\* identifier already.
C27_Witness ==
    /\ collectPc = "collected"
    /\ Len(inputDoc) = 2
    /\ inputDoc[1].type = "CHECKBOX"
    /\ inputDoc[2].onclick = OnclickPater
    /\ inputDoc[2].type = "RADIO"
    /\ idList = <<IdAve, IdPater>>
    /\ Len(docLinks) = 1

(***************************************************************************)
(* divs(): rows and text, lines and their pairing, checked under Spec      *)
(***************************************************************************)

\* A piece of markup holds text: something but white space is left when its
\* tags are taken out.
C28_HoldsText(html) == Trim(ReplaceTags(html, <<>>)) # <<>>

\* The source row holds text in one of its cells.
C28_SourceHoldsText ==
    \E c \in 1..Len(cells) : \E k \in 1..Len(cells[c]) :
        C28_HoldsText(cells[c][k])

\* C28: every row divs() emits has a cell that holds text, and a source row
\* whose cells hold text leaves at least one row in the output.
C28_RowsIffText ==
    /\ \A r \in 1..Len(newTable) :
          \E c \in 1..Len(newTable[r].cells) :
              C28_HoldsText(newTable[r].cells[c].html)
    /\ (pc = "done" /\ C28_SourceHoldsText) => newTable # <<>>


\* The place, among the lines of a source cell as <br> separates them, of
\* the line that is the idx-th (0-based) of its content array.
RECURSIVE C29_SourceIndexFrom(_, _, _)
C29_SourceIndexFrom(rawLines, idx, from) ==
    IF from > Len(rawLines) THEN 0
    ELSE IF Trim(rawLines[from]) = <<>>
         THEN C29_SourceIndexFrom(rawLines, idx, from + 1)
         ELSE IF idx = 0 THEN from
              ELSE C29_SourceIndexFrom(rawLines, idx - 1, from + 1)

\* C29: the lines divs() pairs stand at the same place in their source
\* cells, counted by the <br> markers; a blank line does not shift the
\* pairing of the lines after it.
C29_PairsFollowSourceLines ==
    (pc \in {"lines", "done"} /\ Len(cells) = 2)
    => \A i \in 0..(maxLines - 1) :
          (i < Len(content1) /\ i < Len(content2))
          => C29_SourceIndexFrom(cells[1], i, 1)
             = C29_SourceIndexFrom(cells[2], i, 1)


(***************************************************************************)
(* More properties of findBreakPoints(), checked under SpecFrag.           *)
(***************************************************************************)

\* The 0-based offset pos of the content lies strictly inside a tag region:
\* a "<" stands before it with no ">" between the two, and a ">" comes at
\* or after it.
C30_InsideTag(content, pos) ==
    \E i \in 1..pos :
        /\ content[i] = "<"
        /\ \A k \in (i + 1)..pos : content[k] # ">"
        /\ \E k \in (pos + 1)..Len(content) : content[k] = ">"

\* C30: the htmlPosition of every break point lies between 0 and the
\* length of the fragment and not strictly inside a tag region.
C30_OffsetOutsideTags ==
    fragPc = "scanned"
    => \A k \in 1..Len(breakPoints) :
          /\ breakPoints[k].htmlPosition \in 0..Len(fragment)
          /\ ~C30_InsideTag(fragment, breakPoints[k].htmlPosition)

\* C30 witness: a fragment that opens with a tag, has its mark next and
\* text after it has been scanned, and the offset of its break point lies
\* past the tag and before the end of the fragment.
C30_Witness ==
    /\ fragPc = "scanned"
    /\ Len(fragment) = 5
    /\ fragment[1] = "<"
    /\ fragment[2] = ">"
    /\ fragment[3] = "."
    /\ fragment[4] = "a"
    /\ Len(breakPoints) = 1
    /\ breakPoints[1].htmlPosition = 4
=============================================================================
